---- MODULE Spec2Model ----
(***************************************************************************)
(* Verification model of the wordVana puzzle generator (src/generator.js): *)
(* the outside-slot assigners (single-wave and multi-wave Hopcroft-Karp),  *)
(* the word selector, the backtracking packer, the finalizer and the       *)
(* assembler loop.                                                         *)
(*                                                                         *)
(* Conventions.  JavaScript arrays are TLA+ sequences, so an array index u *)
(* of the source is u+1 here; grid coordinates and slot lane indices keep  *)
(* their 0-based values.  A cell key "r,c" is the pair <<r, c>> and a slot *)
(* id "L:3" is the pair <<"L", 3>>: formatting and parsing of these keys   *)
(* are injective on integers.  A JS Map whose insertion order is read by   *)
(* the code (letters) is a sequence of <<key, value>> pairs with distinct  *)
(* keys; Maps that are only looked up are TLA+ functions.  -1 stays -1.    *)
(***************************************************************************)
EXTENDS Integers, Sequences, FiniteSets, TLC

\* ------------------------------------------------------------------------
\* Bounds of the model
\* ------------------------------------------------------------------------
MaxN == 5          \* largest grid side of the dense assigner inputs

\* null, and a thrown Error, as values every result can be compared with
NULL == [kind |-> "null"]
Thrown(msg) == [kind |-> "throw", message |-> msg]
UNDEFINED == 0     \* Map.get of an absent slot id (slot positions start at 1)
Difficulties == {"easy", "balanced", "hard"}

\* ------------------------------------------------------------------------
\* Generic helpers
\* ------------------------------------------------------------------------
Range(s) == {s[i] : i \in DOMAIN s}

Max2(a, b) == IF a >= b THEN a ELSE b
Min2(a, b) == IF a <= b THEN a ELSE b

\* [...letters.keys()]
MapKeys(m) == [i \in 1..Len(m) |-> m[i][1]]

\* letters.get("r,c"), or "?" for undefined
LetterAt(letters, r, c) ==
  IF \E m \in 1..Len(letters) : letters[m][1] = <<r, c>>
    THEN letters[CHOOSE m \in 1..Len(letters) : letters[m][1] = <<r, c>>][2]
    ELSE "?"

\* ------------------------------------------------------------------------
\* Outside slots (generator.js 153-166)
\* ------------------------------------------------------------------------
INF == 1000000000

MkSlot(side, index) == [id |-> <<side, index>>, side |-> side, index |-> index]

\* slots: L:r, R:r for each row, then T:c, B:c for each column
Slots(N) ==
  [i \in 1..(4 * N) |->
     IF i <= 2 * N
       THEN MkSlot(IF i % 2 = 1 THEN "L" ELSE "R", (i - 1) \div 2)
       ELSE MkSlot(IF i % 2 = 1 THEN "T" ELSE "B", (i - 2 * N - 1) \div 2)]

\* slotIndex.get(id): the position of the slot in slots, or undefined
SlotIndexGet(slots, id) ==
  IF \E i \in DOMAIN slots : slots[i].id = id
    THEN CHOOSE i \in DOMAIN slots : slots[i].id = id
    ELSE UNDEFINED

GridN(grid) == Cardinality(DOMAIN grid)

\* rowLen[r], colLen[c]: number of fillable cells of the lane
RowLen(grid, r) == Cardinality({c \in DOMAIN grid : grid[r][c] = 1})
ColLen(grid, c) == Cardinality({r \in DOMAIN grid : grid[r][c] = 1})

\* a preference that gives ties to the columns under 'hard' and 'easy'
preferredFirstDimensionStrict(grid, difficulty, r, c, i) ==
  LET rl == RowLen(grid, r)
      cl == ColLen(grid, c)
  IN  IF difficulty = "hard" THEN (IF rl > cl THEN "row" ELSE "col")
      ELSE IF difficulty = "easy" THEN (IF rl < cl THEN "row" ELSE "col")
      ELSE (IF i % 2 = 0 THEN "row" ELSE "col")

preferredFirstDimension(grid, difficulty, r, c, i) ==
  LET rl == RowLen(grid, r)
      cl == ColLen(grid, c)
  IN  IF difficulty = "hard" THEN (IF rl >= cl THEN "row" ELSE "col")
      ELSE IF difficulty = "easy" THEN (IF rl <= cl THEN "row" ELSE "col")
      ELSE (IF i % 2 = 0 THEN "row" ELSE "col")

\* a range check that takes 0 for an invalid coordinate
KeyInRangeFromOne(N, key) ==
  /\ key[1] \in 1..(N - 1)
  /\ key[2] \in 1..(N - 1)

\* A key is valid when both parts are integers in [0, N)
KeyInRange(N, key) ==
  /\ key[1] \in 0..(N - 1)
  /\ key[2] \in 0..(N - 1)

\* candidate ids that pair the column slots with the row number
OrderedIdsSwapped(grid, difficulty, key, i) ==
  LET r == key[1]
      c == key[2]
  IN  IF preferredFirstDimension(grid, difficulty, r, c, i) = "row"
        THEN << <<"L", r>>, <<"R", r>>, <<"T", r>>, <<"B", r>> >>
        ELSE << <<"T", r>>, <<"B", r>>, <<"L", r>>, <<"R", r>> >>

\* candidate ids of the preferred dimension alone
OrderedIdsPreferredOnly(grid, difficulty, key, i) ==
  LET r == key[1]
      c == key[2]
  IN  IF preferredFirstDimension(grid, difficulty, r, c, i) = "row"
        THEN << <<"L", r>>, <<"R", r>>, <<"L", r>>, <<"R", r>> >>
        ELSE << <<"T", c>>, <<"B", c>>, <<"T", c>>, <<"B", c>> >>

\* orderedIds of one cell
OrderedIds(grid, difficulty, key, i) ==
  LET r == key[1]
      c == key[2]
  IN  IF preferredFirstDimension(grid, difficulty, r, c, i) = "row"
        THEN << <<"L", r>>, <<"R", r>>, <<"T", c>>, <<"B", c>> >>
        ELSE << <<"T", c>>, <<"B", c>>, <<"L", r>>, <<"R", r>> >>

\* an adjacency that offers a cell the two slots of its row only
AdjOfRowOnly(grid, difficulty, slots, key, i) ==
  << SlotIndexGet(slots, <<"L", key[1]>>), SlotIndexGet(slots, <<"R", key[1]>>) >>

\* adj[u]: the slot indices of the ordered ids that exist
AdjOf(grid, difficulty, slots, key, i) ==
  LET ids == OrderedIds(grid, difficulty, key, i)
      idx == [k \in 1..4 |-> SlotIndexGet(slots, ids[k])]
  IN  SelectSeq(idx, LAMBDA vi : vi # UNDEFINED)

\* an adjacency that gives candidates to every other cell only
BuildAdjEveryOther(grid, difficulty, slots, cells) ==
  [u \in 1..Len(cells) |->
     IF u % 2 = 1 THEN AdjOf(grid, difficulty, slots, cells[u], u - 1) ELSE <<>>]

BuildAdj(grid, difficulty, slots, cells) ==
  [u \in 1..Len(cells) |-> AdjOf(grid, difficulty, slots, cells[u], u - 1)]

\* ------------------------------------------------------------------------
\* Hopcroft-Karp (bfs, dfs and the phase loop); st = [pairU, pairV, dist]
\* ------------------------------------------------------------------------
RECURSIVE BfsScan(_, _, _, _, _)
\* the inner loop of bfs over adj[u], from neighbour k on
BfsScan(adj, st, u, k, acc) ==
  IF k > Len(adj[u]) THEN acc
  ELSE
    LET v  == adj[u][k]
        u2 == st.pairV[v]
    IN  IF u2 = -1
          THEN BfsScan(adj, st, u, k + 1, [acc EXCEPT !.found = TRUE])
        ELSE IF acc.dist[u2] = INF
          THEN BfsScan(adj, st, u, k + 1,
                       [acc EXCEPT !.dist[u2] = acc.dist[u] + 1,
                                   !.q = Append(acc.q, u2)])
        ELSE BfsScan(adj, st, u, k + 1, acc)

RECURSIVE BfsLoop(_, _, _, _)
BfsLoop(adj, st, qi, acc) ==
  IF qi > Len(acc.q) THEN acc
  ELSE BfsLoop(adj, st, qi + 1, BfsScan(adj, st, acc.q[qi], 1, acc))

\* bfs(): [found, dist]
bfs(adj, st) ==
  LET M    == Len(adj)
      free == [u \in 1..M |-> st.pairU[u] = -1]
      q0   == SelectSeq([u \in 1..M |-> u], LAMBDA u : free[u])
      d0   == [u \in 1..M |-> IF free[u] THEN 0 ELSE INF]
      r    == BfsLoop(adj, st, 1, [q |-> q0, dist |-> d0, found |-> FALSE])
  IN  [found |-> r.found, st |-> [st EXCEPT !.dist = r.dist]]

\* a dfs that takes the first candidate slot whether or not it is free
DfsTryFirst(adj, st, u, k) ==
  IF k > Len(adj[u])
    THEN [ok |-> FALSE, st |-> [st EXCEPT !.dist[u] = INF]]
    ELSE [ok |-> TRUE,
          st |-> [st EXCEPT !.pairU[u] = adj[u][k], !.pairV[adj[u][k]] = u]]

RECURSIVE dfs(_, _, _), DfsTry(_, _, _, _)
\* the loop of dfs(u) over adj[u], from neighbour k on
DfsTry(adj, st, u, k) ==
  IF k > Len(adj[u])
    THEN [ok |-> FALSE, st |-> [st EXCEPT !.dist[u] = INF]]
  ELSE
    LET v  == adj[u][k]
        u2 == st.pairV[v]
    IN  IF u2 = -1
          THEN [ok |-> TRUE,
                st |-> [st EXCEPT !.pairU[u] = v, !.pairV[v] = u]]
        ELSE IF st.dist[u2] = st.dist[u] + 1
          THEN LET sub == dfs(adj, st, u2)
               IN  IF sub.ok
                     THEN [ok |-> TRUE,
                           st |-> [sub.st EXCEPT !.pairU[u] = v, !.pairV[v] = u]]
                     ELSE DfsTry(adj, sub.st, u, k + 1)
        ELSE DfsTry(adj, st, u, k + 1)

dfs(adj, st, u) == DfsTry(adj, st, u, 1)

RECURSIVE HKPhase(_, _, _, _)
\* for (u = 0; u < M; u++) if (pairU[u] === -1 && dfs(u)) matching++
HKPhase(adj, st, u, matching) ==
  IF u > Len(adj) THEN [st |-> st, matching |-> matching]
  ELSE IF st.pairU[u] = -1
    THEN LET r == dfs(adj, st, u)
         IN  HKPhase(adj, r.st, u + 1, IF r.ok THEN matching + 1 ELSE matching)
  ELSE HKPhase(adj, st, u + 1, matching)

RECURSIVE HKLoop(_, _, _)
\* while (bfs()) { ... }
HKLoop(adj, st, matching) ==
  LET b == bfs(adj, st)
  IN  IF b.found
        THEN LET p == HKPhase(adj, b.st, 1, matching)
             IN  HKLoop(adj, p.st, p.matching)
        ELSE [st |-> b.st, matching |-> matching]

\* a matching that stops after the first bfs/dfs phase
HopcroftKarpOnePhase(adj, K) ==
  LET b == bfs(adj, [pairU |-> [u \in 1..Len(adj) |-> -1],
                     pairV |-> [v \in 1..K |-> -1],
                     dist  |-> [u \in 1..Len(adj) |-> 0]])
  IN  IF b.found THEN HKPhase(adj, b.st, 1, 0) ELSE [st |-> b.st, matching |-> 0]

\* the matching of M cells to K slots: [st, matching]
HopcroftKarp(adj, K) ==
  HKLoop(adj,
         [pairU |-> [u \in 1..Len(adj) |-> -1],
          pairV |-> [v \in 1..K |-> -1],
          dist  |-> [u \in 1..Len(adj) |-> 0]],
         0)

\* ------------------------------------------------------------------------
\* assignOutsideSlots (single wave)
\* ------------------------------------------------------------------------
\* a capacity test that also rejects a letter count equal to the slot count
TooManyCellsOrEqual(M, K) == M >= K

\* if (M > K) return null
TooManyCells(M, K) == M > K

\* "matching" of the last call is kept beside the result for inspection
SingleWave(grid, letters, difficulty) ==
  LET N     == GridN(grid)
      cells == MapKeys(letters)
      M     == Len(cells)
      slots == Slots(N)
      K     == Len(slots)
  IN  IF TooManyCells(M, K) THEN [result |-> NULL, matching |-> -1]
      ELSE IF \E u \in 1..M : ~KeyInRange(N, cells[u])
        THEN [result |-> NULL, matching |-> -1]
      ELSE
        LET hk == HopcroftKarp(BuildAdj(grid, difficulty, slots, cells), K)
        IN  IF hk.matching # M THEN [result |-> NULL, matching |-> hk.matching]
            ELSE
              [result |->
                 [kind   |-> "assignment",
                  byCell |-> [key \in Range(cells) |->
                                LET u == CHOOSE u \in 1..M : cells[u] = key
                                    s == slots[hk.st.pairU[u]]
                                IN  [side |-> s.side, index |-> s.index, id |-> s.id]],
                  bySlot |-> [id \in {slots[hk.st.pairU[u]].id : u \in 1..M} |->
                                cells[CHOOSE u \in 1..M :
                                        /\ slots[hk.st.pairU[u]].id = id
                                        /\ \A w \in (u + 1)..M :
                                             slots[hk.st.pairU[w]].id # id]],
                  slots  |-> slots],
               matching |-> hk.matching]

assignOutsideSlots(grid, letters, difficulty) ==
  SingleWave(grid, letters, difficulty).result

\* ------------------------------------------------------------------------
\* assignOutsideSlotsInWaves (multi wave)
\* ------------------------------------------------------------------------
THROW_INVALID_KEY == Thrown("Invalid cell key in letters")

\* a push that puts the cell at the front of the queue
QueueUnshift(q, cellKey) == <<cellKey>> \o q

\* slotQueues.get(slot.id).push(cellKey)
QueuePush(q, cellKey) == Append(q, cellKey)

\* a wave counter that stays where it is
NextWaveSame(wave) == wave

\* wave++
NextWave(wave) == wave + 1

\* the last entry of a queue
QueueLast(q) == q[Len(q)]

\* q[0], the first cell of a queue that has one
QueueHead(q) == q[1]

RECURSIVE RecordWave(_, _, _, _, _, _)
\* "Record matches for this wave": for u = 0..M-1 with pairU[u] !== -1
RecordWave(slots, remaining, pairU, wave, u, acc) ==
  IF u > Len(remaining) THEN acc
  ELSE IF pairU[u] # -1
    THEN LET slot    == slots[pairU[u]]
             cellKey == remaining[u].key
         IN  RecordWave(slots, remaining, pairU, wave, u + 1,
               [byCell     |-> (cellKey :> [side |-> slot.side, index |-> slot.index,
                                            id |-> slot.id, wave |-> wave])
                               @@ acc.byCell,
                slotQueues |-> [acc.slotQueues EXCEPT
                                  ![slot.id] = QueuePush(@, cellKey)],
                matchedU   |-> Append(acc.matchedU, u)])
  ELSE RecordWave(slots, remaining, pairU, wave, u + 1, acc)

\* arr.splice(u, 1) with u the position in this model (a no-op past the end)
Splice(arr, u) ==
  IF u > Len(arr) THEN arr
  ELSE [i \in 1..(Len(arr) - 1) |-> IF i < u THEN arr[i] ELSE arr[i + 1]]

RECURSIVE SpliceAll(_, _, _)
SpliceAll(arr, us, k) ==
  IF k > Len(us) THEN arr ELSE SpliceAll(Splice(arr, us[k]), us, k + 1)

\* a sort that leaves the recorded order
SortAsRecorded(us) == us

RECURSIVE SortDescending(_)
\* matchedU.sort((a, b) => b - a)
SortDescending(us) ==
  IF Len(us) = 0 THEN <<>>
  ELSE LET m == CHOOSE x \in Range(us) : \A y \in Range(us) : y <= x
           i == CHOOSE i \in 1..Len(us) : us[i] = m /\ \A j \in 1..(i - 1) : us[j] # m
       IN  <<m>> \o SortDescending(Splice(us, i))

\* a removal that splices in the order the matches were recorded
RemoveMatchedAscending(remaining, matchedU) == SpliceAll(remaining, matchedU, 1)

\* matchedU.sort((a, b) => b - a).forEach(u => remaining.splice(u, 1))
RemoveMatched(remaining, matchedU) ==
  SpliceAll(remaining, SortDescending(matchedU), 1)

RECURSIVE WaveLoop(_, _, _, _, _)
\* while (remaining.length) { ... }
\* acc = [byCell, slotQueues, waves, sizes, zeroBreak]
WaveLoop(adjGlobal, slots, remaining, wave, acc) ==
  IF Len(remaining) = 0 THEN [acc EXCEPT !.waves = wave]
  ELSE
    LET uToGlobal == [i \in 1..Len(remaining) |-> remaining[i].u]
        adjLocal  == [i \in 1..Len(remaining) |-> adjGlobal[uToGlobal[i]]]
        hk        == HopcroftKarp(adjLocal, Len(slots))
    IN  IF hk.matching = 0
          THEN [acc EXCEPT !.waves = wave, !.zeroBreak = TRUE]
        ELSE
          LET rec == RecordWave(slots, remaining, hk.st.pairU, wave, 1,
                                [byCell |-> acc.byCell, slotQueues |-> acc.slotQueues,
                                 matchedU |-> <<>>])
          IN  WaveLoop(adjGlobal, slots, RemoveMatched(remaining, rec.matchedU),
                       NextWave(wave),
                       [acc EXCEPT !.byCell = rec.byCell,
                                   !.slotQueues = rec.slotQueues,
                                   !.sizes = Append(@, hk.matching)])

\* the whole call; "waves", "sizes" and "zeroBreak" expose the loop's
\* counters beside the returned value
MultiWave(grid, letters, difficulty) ==
  LET N        == GridN(grid)
      cellsAll == MapKeys(letters)
      slots    == Slots(N)
  IN  IF \E u \in 1..Len(cellsAll) : ~KeyInRange(N, cellsAll[u])
        THEN [result |-> THROW_INVALID_KEY, waves |-> 0, sizes |-> <<>>,
              zeroBreak |-> FALSE]
      ELSE
        LET adjGlobal == BuildAdj(grid, difficulty, slots, cellsAll)
            remaining == [u \in 1..Len(cellsAll) |-> [key |-> cellsAll[u], u |-> u]]
            w == WaveLoop(adjGlobal, slots, remaining, 0,
                          [byCell     |-> <<>>,
                           slotQueues |-> [id \in {slots[i].id : i \in DOMAIN slots} |-> <<>>],
                           waves      |-> 0,
                           sizes      |-> <<>>,
                           zeroBreak  |-> FALSE])
        IN  [result |->
               [kind       |-> "assignment",
                byCell     |-> w.byCell,
                bySlot     |-> [id \in {i \in DOMAIN w.slotQueues :
                                          Len(w.slotQueues[i]) > 0} |->
                                  QueueHead(w.slotQueues[id])],
                slotQueues |-> w.slotQueues,
                slots      |-> slots],
             waves |-> w.waves, sizes |-> w.sizes, zeroBreak |-> w.zeroBreak]

assignOutsideSlotsInWaves(grid, letters, difficulty) ==
  MultiWave(grid, letters, difficulty).result

\* ------------------------------------------------------------------------
\* Word selection (pickConnectedWords) -- a word is a sequence of letters
\* ------------------------------------------------------------------------
IndexOrders(n) ==
  {f \in [1..n -> 1..n] : \A i, j \in 1..n : i # j => f[i] # f[j]}

\* shuffle(arr): every order a sort with a random comparator can leave
Shuffles(arr) == {[i \in 1..Len(arr) |-> arr[f[i]]] : f \in IndexOrders(Len(arr))}

\* a test that lets any two words pass
sharesLetterAlways(a, b) == TRUE

\* [...a].some(ch => b.includes(ch))
sharesLetter(a, b) == \E i \in 1..Len(a) : \E j \in 1..Len(b) : a[i] = b[j]

THROW_NO_WORDS == Thrown("No words in dictionary range")
THROW_INSUFFICIENT == Thrown("Insufficient overlap")

\* a find that compares the pool words with the first chosen word only
FindNextSeedOnly(pool, chosen) ==
  IF \E k \in 1..Len(pool) : sharesLetter(chosen[1], pool[k])
    THEN CHOOSE k \in 1..Len(pool) :
           /\ sharesLetter(chosen[1], pool[k])
           /\ \A m \in 1..(k - 1) : ~sharesLetter(chosen[1], pool[m])
    ELSE 0

\* pool.find(w => chosen.some(c => sharesLetter(c, w))): position or 0
FindNext(pool, chosen) ==
  IF \E k \in 1..Len(pool) : \E n \in 1..Len(chosen) : sharesLetter(chosen[n], pool[k])
    THEN CHOOSE k \in 1..Len(pool) :
           /\ \E n \in 1..Len(chosen) : sharesLetter(chosen[n], pool[k])
           /\ \A m \in 1..(k - 1) :
                \A n \in 1..Len(chosen) : ~sharesLetter(chosen[n], pool[m])
    ELSE 0

RECURSIVE PickLoop(_, _, _)
\* while (chosen.length < wordCount && pool.length) { ... }
PickLoop(pool, chosen, wordCount) ==
  IF Len(chosen) < wordCount /\ Len(pool) > 0
    THEN LET k == FindNext(pool, chosen)
         IN  IF k = 0 THEN chosen
             \* pool.splice(pool.indexOf(next), 1): the first equal entry
             ELSE PickLoop(Splice(pool, k), Append(chosen, pool[k]), wordCount)
    ELSE chosen

\* pickConnectedWords on an already shuffled dictionary: the chosen list in
\* a "words" record, or the Error thrown
pickConnectedWords(shuffled, minWordLen, maxWordLen, wordCount) ==
  LET pool == SelectSeq(shuffled, LAMBDA w : Len(w) >= minWordLen /\ Len(w) <= maxWordLen)
  IN  IF Len(pool) = 0 THEN THROW_NO_WORDS
      ELSE LET chosen == PickLoop(SubSeq(pool, 1, Len(pool) - 1),
                                  <<pool[Len(pool)]>>, wordCount)
           IN  IF Len(chosen) < wordCount THEN THROW_INSUFFICIENT
               ELSE [kind |-> "words", words |-> chosen]

\* ------------------------------------------------------------------------
\* Overlap map (buildOverlapMap); positions are kept 1-based
\* ------------------------------------------------------------------------
\* pairs that keep only the first matching j of every i
OverlapPairsFirstOnly(a, b) ==
  LET all == [n \in 1..(Len(a) * Len(b)) |->
                [i |-> ((n - 1) \div Len(b)) + 1, j |-> ((n - 1) % Len(b)) + 1]]
  IN  SelectSeq(all, LAMBDA p : a[p.i] = b[p.j] /\ \A j \in 1..(p.j - 1) : a[p.i] # b[j])

\* pairs {i, j} with a[i] === b[j], by i then j
OverlapPairs(a, b) ==
  LET all == [n \in 1..(Len(a) * Len(b)) |->
                [i |-> ((n - 1) \div Len(b)) + 1, j |-> ((n - 1) % Len(b)) + 1]]
  IN  SelectSeq(all, LAMBDA p : a[p.i] = b[p.j])

\* overlaps.get(a)?.get(b): the pair list, or <<>> for undefined
OverlapsGet(words, a, b) ==
  IF a \in Range(words) /\ b \in Range(words) /\ a # b
    THEN OverlapPairs(a, b)
    ELSE <<>>

\* overlaps.get(word)?.size ?? 0
overlapDegree(word, words) ==
  Cardinality({b \in Range(words) : Len(OverlapsGet(words, word, b)) > 0})

RECURSIVE SortByDegree(_, _)
\* remaining.sort by ascending overlap degree (Array.prototype.sort is stable)
SortByDegree(remaining, words) ==
  IF Len(remaining) = 0 THEN <<>>
  ELSE LET i == CHOOSE i \in 1..Len(remaining) :
                  /\ \A j \in 1..Len(remaining) :
                       overlapDegree(remaining[i], words) <= overlapDegree(remaining[j], words)
                  /\ \A j \in 1..(i - 1) :
                       overlapDegree(remaining[j], words) > overlapDegree(remaining[i], words)
       IN  <<remaining[i]>> \o SortByDegree(Splice(remaining, i), words)

\* ------------------------------------------------------------------------
\* Board: Cell objects live in a heap (id -> Cell) so that a Placement and
\* the board can hold the same object; board.cells is the Map in insertion
\* order, as the sequence of the ids it holds (the key is the cell's r,c).
\*   board = [heap, cells, placements], placement = [word, dir, cells]
\* ------------------------------------------------------------------------
EmptyBoard == [heap |-> <<>>, cells |-> <<>>, placements |-> <<>>]

\* position in board.cells of key "r,c", or 0
CellPos(board, r, c) ==
  IF \E n \in 1..Len(board.cells) :
       board.heap[board.cells[n]].r = r /\ board.heap[board.cells[n]].c = c
    THEN CHOOSE n \in 1..Len(board.cells) :
           board.heap[board.cells[n]].r = r /\ board.heap[board.cells[n]].c = c
    ELSE 0

\* board.has(r, c)
BoardHas(board, r, c) == CellPos(board, r, c) # 0

\* board.get(r, c): the id of the Cell, when board.has(r, c)
BoardGet(board, r, c) == board.cells[CellPos(board, r, c)]

\* ids of the cells some placement or the board still refers to
Reachable(board) ==
  Range(board.cells) \cup
  UNION {Range(board.placements[n].cells) : n \in 1..Len(board.placements)}

\* new Cell(...): objects nothing refers to any more are dropped and the
\* smallest free id is handed out
FreshId(heap) == CHOOSE id \in 1..(Cardinality(DOMAIN heap) + 1) : id \notin DOMAIN heap

Collect(board) ==
  [board EXCEPT !.heap = [id \in Reachable(board) |-> board.heap[id]]]

\* board.addCell(cell): Map.set keeps the place of a key it already holds
AddCell(board, id) ==
  LET n == CellPos(board, board.heap[id].r, board.heap[id].c)
  IN  IF n = 0 THEN [board EXCEPT !.cells = Append(@, id)]
      ELSE [board EXCEPT !.cells[n] = id]

RECURSIVE AddCells(_, _, _, _)
\* for (const cell of newCells) { cell.words.add(word); board.addCell(cell); }
AddCells(board, ids, word, k) ==
  IF k > Len(ids) THEN board
  ELSE AddCells(AddCell([board EXCEPT !.heap[ids[k]].words = @ \cup {word}], ids[k]),
                ids, word, k + 1)

\* placeAnchor: the word along row 0 from column 0
placeAnchor(board, word) ==
  LET ids   == [i \in 1..Len(word) |-> i]
      heap1 == [i \in 1..Len(word) |->
                  [r |-> 0, c |-> i - 1, letter |-> word[i], words |-> {word}]]
  IN  [heap |-> heap1, cells |-> ids,
       placements |-> << [word |-> word, dir |-> "H", cells |-> ids] >>]

\* touchesInvalid: a new cell may not have a neighbour across the direction
touchesInvalidNever(board, r, c, dir) == FALSE

touchesInvalid(board, r, c, dir) ==
  IF dir = "H"
    THEN BoardHas(board, r - 1, c) \/ BoardHas(board, r + 1, c)
    ELSE BoardHas(board, r, c - 1) \/ BoardHas(board, r, c + 1)

endCapsClear(board, startR, startC, endR, endC, dir) ==
  IF dir = "H"
    THEN ~BoardHas(board, startR, startC - 1) /\ ~BoardHas(board, endR, endC + 1)
    ELSE ~BoardHas(board, startR - 1, startC) /\ ~BoardHas(board, endR + 1, endC)

\* rows that take a vertical word away from the cell it should cross
PlaceRApart(baseCell, dir, i, k) == baseCell.r + (IF dir = "V" THEN k - i + 7 ELSE 0)

\* coordinates of letter k of the word when letter i lies on baseCell
PlaceR(baseCell, dir, i, k) == baseCell.r + (IF dir = "V" THEN k - i ELSE 0)
PlaceC(baseCell, dir, i, k) == baseCell.c + (IF dir = "H" THEN k - i ELSE 0)

RECURSIVE NewCellsAnyLetter(_, _, _, _, _, _, _)
\* the loop without the letter comparison: an existing cell is always taken
NewCellsAnyLetter(board, word, baseCell, i, dir, k, acc) ==
  IF k > Len(word) THEN acc
  ELSE
    LET r == PlaceR(baseCell, dir, i, k)
        c == baseCell.c + (IF dir = "H" THEN k - i ELSE 0)
    IN  IF BoardHas(board, r, c)
          THEN NewCellsAnyLetter(board, word, baseCell, i, dir, k + 1,
                                 [acc EXCEPT !.ids = Append(@, BoardGet(board, r, c))])
        ELSE IF touchesInvalid(board, r, c, dir)
          THEN [acc EXCEPT !.ok = FALSE]
        ELSE LET id == FreshId(acc.heap)
             IN  NewCellsAnyLetter(board, word, baseCell, i, dir, k + 1,
                   [acc EXCEPT !.ids = Append(@, id),
                               !.heap = (id :> [r |-> r, c |-> c, letter |-> word[k],
                                                words |-> {}]) @@ @])

RECURSIVE NewCells(_, _, _, _, _, _, _)
\* the loop of tryPlace over the letters: [ok, ids, heap] -- existing cells are
\* taken as they are, new Cell objects are allocated (not yet on the board)
NewCells(board, word, baseCell, i, dir, k, acc) ==
  IF k > Len(word) THEN acc
  ELSE
    LET r == PlaceR(baseCell, dir, i, k)
        c == PlaceC(baseCell, dir, i, k)
    IN  IF BoardHas(board, r, c)
          THEN IF board.heap[BoardGet(board, r, c)].letter # word[k]
                 THEN [acc EXCEPT !.ok = FALSE]
                 ELSE NewCells(board, word, baseCell, i, dir, k + 1,
                               [acc EXCEPT !.ids = Append(@, BoardGet(board, r, c))])
        ELSE IF touchesInvalid(board, r, c, dir)
          THEN [acc EXCEPT !.ok = FALSE]
        ELSE LET id == FreshId(acc.heap)
             IN  NewCells(board, word, baseCell, i, dir, k + 1,
                   [acc EXCEPT !.ids = Append(@, id),
                               !.heap = (id :> [r |-> r, c |-> c, letter |-> word[k],
                                                words |-> {}]) @@ @])

\* tryPlace(board, word, base, i, j, dir): [ok, board]
tryPlace(board, word, base, i, j, dir) ==
  LET baseCell == board.heap[base.cells[j]]
      nc       == NewCells(board, word, baseCell, i, dir, 1,
                           [ok |-> TRUE, ids |-> <<>>, heap |-> board.heap])
      startR   == IF dir = "H" THEN baseCell.r ELSE baseCell.r - i + 1
      startC   == IF dir = "H" THEN baseCell.c - i + 1 ELSE baseCell.c
      endR     == IF dir = "H" THEN baseCell.r ELSE baseCell.r - i + 1 + Len(word) - 1
      endC     == IF dir = "H" THEN baseCell.c - i + 1 + Len(word) - 1 ELSE baseCell.c
  IN  IF ~nc.ok THEN [ok |-> FALSE, board |-> board]
      ELSE IF ~endCapsClear(board, startR, startC, endR, endC, dir)
        THEN [ok |-> FALSE, board |-> board]
      ELSE
        LET b1 == AddCells([board EXCEPT !.heap = nc.heap], nc.ids, word, 1)
        IN  [ok |-> TRUE,
             board |-> [b1 EXCEPT !.placements =
                          Append(@, [word |-> word, dir |-> dir, cells |-> nc.ids])]]

\* a delete that leaves the key on the board
DeleteKeyNever(board, r, c) == board

\* board.cells.delete(key)
DeleteKey(board, r, c) ==
  LET n == CellPos(board, r, c)
  IN  IF n = 0 THEN board ELSE [board EXCEPT !.cells = Splice(@, n)]

RECURSIVE UndoCells(_, _, _, _)
\* for (const cell of placement.cells) { cell.words.delete(word); ... }
UndoCells(board, ids, word, k) ==
  IF k > Len(ids) THEN board
  ELSE
    LET b1 == [board EXCEPT !.heap[ids[k]].words = @ \ {word}]
    IN  UndoCells(IF b1.heap[ids[k]].words = {}
                    THEN DeleteKey(b1, b1.heap[ids[k]].r, b1.heap[ids[k]].c)
                    ELSE b1,
                  ids, word, k + 1)

\* undo(board, word): pops the last placement and releases its cells
undo(board, word) ==
  LET placement == board.placements[Len(board.placements)]
      popped    == [board EXCEPT !.placements = SubSeq(@, 1, Len(@) - 1)]
  IN  UndoCells(popped, placement.cells, word, 1)

\* ------------------------------------------------------------------------
\* finalize
\* ------------------------------------------------------------------------
\* a minimum that never goes below the origin
SetMinFromOrigin(S) == Max2(0, CHOOSE x \in S : \A y \in S : x <= y)

SetMin(S) == CHOOSE x \in S : \A y \in S : x <= y
SetMax(S) == CHOOSE x \in S : \A y \in S : x >= y

\* the list as it is, repeated entries kept
DedupeKeepAll(list) == list

RECURSIVE Dedupe(_)
\* [...new Set(list)]: first occurrences, in order
Dedupe(list) ==
  IF Len(list) = 0 THEN <<>>
  ELSE LET init == Dedupe(SubSeq(list, 1, Len(list) - 1))
           x    == list[Len(list)]
       IN  IF x \in Range(init) THEN init ELSE Append(init, x)

RECURSIVE LettersSet(_, _, _)
\* letters.set(key, letter) for each live cell, in board.cells order
LettersSet(entries, k, letters) ==
  IF k > Len(entries) THEN letters
  ELSE LET n == IF \E m \in 1..Len(letters) : letters[m][1] = entries[k][1]
                  THEN CHOOSE m \in 1..Len(letters) : letters[m][1] = entries[k][1]
                  ELSE 0
       IN  LettersSet(entries, k + 1,
                      IF n = 0 THEN Append(letters, entries[k])
                      ELSE [letters EXCEPT ![n] = entries[k]])

\* finalize(board): { grid, letters, words }.  With no live cell Math.min()
\* is Infinity, N is -Infinity and Array.from gives the empty grid.
GridSideNarrow(size, width) == Min2(size, width)

\* const N = Math.max(size, width)
GridSide(size, width) == Max2(size, width)

finalize(board) ==
  LET live == [n \in 1..Len(board.cells) |-> board.heap[board.cells[n]]]
      rs   == {live[n].r : n \in 1..Len(live)}
      cs   == {live[n].c : n \in 1..Len(live)}
      words == Dedupe([n \in 1..Len(board.placements) |-> board.placements[n].word])
  IN  IF Len(live) = 0 THEN [grid |-> <<>>, letters |-> <<>>, words |-> words]
      ELSE
        LET minR  == SetMin(rs)
            minC  == SetMin(cs)
            size  == SetMax(rs) - minR + 1
            width == SetMax(cs) - minC + 1
            N     == GridSide(size, width)
            moved == [n \in 1..Len(live) |->
                        << <<live[n].r - minR, live[n].c - minC>>, live[n].letter >>]
        IN  [grid    |-> [r \in 0..(N - 1) |-> [c \in 0..(N - 1) |->
                            IF \E n \in 1..Len(moved) : moved[n][1] = <<r, c>>
                              THEN 1 ELSE 0]],
             letters |-> LettersSet(moved, 1, <<>>),
             words   |-> words]

\* ------------------------------------------------------------------------
\* State
\* ------------------------------------------------------------------------
VARIABLES
  aGrid,        \* assigner input: grid
  aLetters,     \* assigner input: letters (Map in insertion order)
  aDifficulty,  \* assigner input: options.difficulty
  aSingle,      \* outcome of assignOutsideSlots on the input, or NotCalled
  aWaves        \* outcome of assignOutsideSlotsInWaves on the input, or NotCalled

VARIABLES
  dictionary,         \* generateFeasiblePuzzle: the dictionary argument
  opts,               \* its options, defaults applied
  pc,                 \* where the call stands
  adaptiveWordCount,  \* the word count of the current attempt
  words,              \* the words picked for the current attempt
  board,              \* the Board of the current attempt
  stack,              \* the active solve() calls, outermost first
  out                 \* the value of `out`, a thrown Error, or NoOut

VARIABLES
  yieldEvery,   \* generateFeasiblePuzzleAsync: its yieldEvery option
  attempts,     \* its attempts counter; 0 while the caller is not the wrapper
  unsuspended   \* failed attempts run since the wrapper last suspended

VARIABLES
  puzzle,            \* the puzzle on screen: grid, letters, slotAssignment
  tokens,            \* State.tokens: token id (a cell key) -> token record
  slotCursor,        \* State.slotCursor: slot id -> next queue index to emit
  slotActive,        \* State.slotActive: slot id -> id of the token shown there
  selectedTokenId,   \* State.selectedTokenId
  cellTokenId,       \* cell.dataset.tokenId of every board cell
  validationStarted  \* the last click started Anim.validateCompletionSequence

VARIABLES
  presetN,     \* generate-puzzles.mjs: preset.N of the batch, 0 outside the script
  poolPuzzle   \* the entry the batch pushed for the raw puzzle, or NoOut

aVars == <<aGrid, aLetters, aDifficulty, aSingle, aWaves>>
gVars == <<dictionary, opts, pc, adaptiveWordCount, words, board, stack, out>>
wVars == <<yieldEvery, attempts, unsuspended>>
uVars == <<puzzle, tokens, slotCursor, slotActive, selectedTokenId, cellTokenId,
           validationStarted>>
pVars == <<presetN, poolPuzzle>>
vars == <<aVars, gVars, wVars, uVars, pVars>>

NotCalled == [kind |-> "not called"]
NoOut == [kind |-> "none"]

\* no token id: null, undefined or a missing data-token-id
NoId == <<>>

\* no puzzle has been handed to the token UI
UiIdle ==
  /\ puzzle = NoOut
  /\ tokens = <<>>
  /\ slotCursor = <<>>
  /\ slotActive = <<>>
  /\ selectedTokenId = NoId
  /\ cellTokenId = <<>>
  /\ validationStarted = FALSE

\* the pool script is not the caller
PoolIdle ==
  /\ presetN = 0
  /\ poolPuzzle = NoOut

\* generateFeasiblePuzzleAsync is not the caller
WrapperIdle ==
  /\ yieldEvery = 0
  /\ attempts = 0
  /\ unsuspended = 0

\* the generator variables while only the assigners are exercised
GenIdle ==
  /\ dictionary = <<>>
  /\ opts = [kind |-> "none"]
  /\ pc = "idle"
  /\ adaptiveWordCount = 0
  /\ words = <<>>
  /\ board = EmptyBoard
  /\ stack = <<>>
  /\ out = NoOut

\* the assigner variables while the generator runs
AssignIdle ==
  /\ aGrid = <<>>
  /\ aLetters = <<>>
  /\ aDifficulty = "balanced"
  /\ aSingle = NotCalled
  /\ aWaves = NotCalled

\* ------------------------------------------------------------------------
\* Inputs of the assigners
\* ------------------------------------------------------------------------
AllCells(N) == {<<r, c>> : r \in 0..(N - 1), c \in 0..(N - 1)}

\* row-major order of a set of cells of an N x N grid, as a letters Map
RowMajor(N, S) ==
  LET all  == [i \in 1..(N * N) |-> <<(i - 1) \div N, (i - 1) % N>>]
      keys == SelectSeq(all, LAMBDA k : k \in S)
  IN  [i \in 1..Len(keys) |-> <<keys[i], "A">>]

Reverse(s) == [i \in 1..Len(s) |-> s[Len(s) + 1 - i]]

\* the grid finalize builds for a letters Map
GridOf(N, letters) ==
  [r \in 0..(N - 1) |-> [c \in 0..(N - 1) |->
     IF <<r, c>> \in Range(MapKeys(letters)) THEN 1 ELSE 0]]

\* every sequence of distinct elements of S
RECURSIVE Orderings(_)
Orderings(S) ==
  IF S = {} THEN {<<>>}
  ELSE UNION {{<<x>> \o t : t \in Orderings(S \ {x})} : x \in S}

\* exhaustive family: every grid with every subset of its cells in every
\* order, for the sides where that is affordable (the grid only feeds
\* rowLen/colLen, so it need not agree with letters)
ExhaustiveSides == 1..2
ExhaustiveInputs ==
  UNION {
    {[grid |-> g, letters |-> [i \in 1..Len(o) |-> <<o[i], "A">>]] :
        g \in [0..(N - 1) -> [0..(N - 1) -> {0, 1}]],
        o \in UNION {Orderings(S) : S \in SUBSET AllCells(N)}}
    : N \in ExhaustiveSides}

\* subset family: every subset of the cells of a grid, row-major or reverse
SubsetSides == {3}
SubsetInputs ==
  UNION {
    {[grid    |-> GridOf(N, RowMajor(N, S)),
      letters |-> IF rev THEN Reverse(RowMajor(N, S)) ELSE RowMajor(N, S)] :
        S \in SUBSET AllCells(N), rev \in BOOLEAN}
    : N \in SubsetSides}

\* dense family: the full N x N grid less one hole in each of the first h
\* rows (h = 0..N), each hole in one of the first columns; row-major or
\* reverse.  From N = 5 on these hold more cells than a perimeter has slots.
DenseHoleCols == {0, 1}
DenseLetters(N, h, f) == RowMajor(N, AllCells(N) \ {<<r, f[r]>> : r \in 0..(h - 1)})
DenseInputs ==
  UNION {
    UNION {
      {[grid    |-> GridOf(N, DenseLetters(N, h, f)),
        letters |-> IF rev THEN Reverse(DenseLetters(N, h, f))
                           ELSE DenseLetters(N, h, f)] :
          f \in [0..(h - 1) -> DenseHoleCols \cap (0..(N - 1))], rev \in BOOLEAN}
      : h \in 0..N}
    : N \in 1..MaxN}

\* invalid family: at most two keys, some outside the grid (side 0 included)
InvalidSides == 0..2
InvalidInputs ==
  UNION {
    {[grid    |-> [r \in 0..(N - 1) |-> [c \in 0..(N - 1) |-> 1]],
      letters |-> [i \in 1..Len(o) |-> <<o[i], "A">>]] :
        o \in UNION {Orderings(S) :
               S \in {T \in SUBSET ((-1..N) \X (-1..N)) :
                        Cardinality(T) \in 1..2 /\ ~(T \subseteq AllCells(N))}}}
    : N \in InvalidSides}

\* deep family: side 9, the smallest whose cells can outnumber two
\* perimeters (N * N > 8N), full or with a hole in each of the first rows
DeepSides == {9}
DeepHoleRows == 0..2
DeepInputs ==
  UNION {
    UNION {
      {[grid    |-> GridOf(N, DenseLetters(N, h, f)),
        letters |-> IF rev THEN Reverse(DenseLetters(N, h, f))
                           ELSE DenseLetters(N, h, f)] :
          f \in [0..(h - 1) -> DenseHoleCols], rev \in BOOLEAN}
      : h \in DeepHoleRows}
    : N \in DeepSides}

AssignInputs ==
  ExhaustiveInputs \cup SubsetInputs \cup DenseInputs \cup InvalidInputs
    \cup DeepInputs

InitAssign ==
  /\ \E in \in AssignInputs :
       /\ aGrid = in.grid
       /\ aLetters = in.letters
  /\ aDifficulty \in Difficulties
  /\ aSingle = NotCalled
  /\ aWaves = NotCalled
  /\ GenIdle
  /\ WrapperIdle
  /\ UiIdle
  /\ PoolIdle

CallAssignOutsideSlots ==
  /\ aSingle = NotCalled
  /\ aSingle' = SingleWave(aGrid, aLetters, aDifficulty)
  /\ UNCHANGED <<aGrid, aLetters, aDifficulty, aWaves>>
  /\ UNCHANGED <<gVars, wVars, uVars, pVars>>

CallAssignOutsideSlotsInWaves ==
  /\ aWaves = NotCalled
  /\ aWaves' = MultiWave(aGrid, aLetters, aDifficulty)
  /\ UNCHANGED <<aGrid, aLetters, aDifficulty, aSingle>>
  /\ UNCHANGED <<gVars, wVars, uVars, pVars>>

NextAssign ==
  \/ CallAssignOutsideSlots
  \/ CallAssignOutsideSlotsInWaves

SpecAssign == InitAssign /\ [][NextAssign]_vars

\* ------------------------------------------------------------------------
\* generateFeasiblePuzzle: inputs
\* ------------------------------------------------------------------------
MaxDict == 4       \* longest dictionary
MaxAsyncDict == 3  \* longest dictionary handed to the async wrapper

\* the words dictionaries are drawn from, in a fixed order
WordUniverse ==
  << <<"B", "A">>, <<"A", "B", "A">>, <<"B", "C">>, <<"C", "D">> >>

\* dictionaries of 1..MaxDict universe words, repeats allowed; one order per
\* multiset, since shuffle visits every order
Dictionaries ==
  UNION {
    {[i \in 1..n |-> WordUniverse[f[i]]] :
        f \in {g \in [1..n -> 1..Len(WordUniverse)] :
                 \A i \in 1..(n - 1) : g[i] <= g[i + 1]}}
    : n \in 1..MaxDict}

LowMinLetters == 4            \* a density target some packings reach
UnreachableMinLetters == 100  \* a density target no packing of the universe reaches

MaxYieldEvery == 2    \* largest yieldEvery option
\* the count of unsuspended failed attempts is kept up to one past it
MaxUnsuspended == MaxYieldEvery + 1

\* option records; the lengths are scaled to the universe
OptionChoices ==
  {[difficulty |-> d, minWordLen |-> 2, maxWordLen |-> 3, wordCount |-> wc,
    minLetters |-> 0, maxWordCountCap |-> wc] :
      d \in Difficulties, wc \in 1..MaxDict}
  \cup
  {[difficulty |-> "balanced", minWordLen |-> 2, maxWordLen |-> 2, wordCount |-> wc,
    minLetters |-> 0, maxWordCountCap |-> wc] : wc \in 0..MaxDict}
  \cup
  {[difficulty |-> "balanced", minWordLen |-> 2, maxWordLen |-> 3, wordCount |-> wc,
    minLetters |-> ml, maxWordCountCap |-> wc + dc] :
      wc \in 1..MaxDict, ml \in {LowMinLetters, UnreachableMinLetters}, dc \in {0, 1}}

WORD_COUNT == 11

\* the four-word dictionary and its options; minLetters and maxWordCountCap
\* are the defaults of generateFeasiblePuzzle
CraneDictionary ==
  << <<"C", "R", "A", "N", "E">>, <<"R", "A", "V", "E", "N">>,
     <<"E", "A", "G", "L", "E">>, <<"N", "U", "R", "S", "E">> >>

\* three words in a chain: the middle one shares a letter with each of the
\* others, which share none
ChainDictionary ==
  << <<"B", "A">>, <<"B", "E", "C">>, <<"C", "D">> >>

ChainOptionChoices ==
  {[difficulty |-> "balanced", minWordLen |-> 2, maxWordLen |-> 3, wordCount |-> 3,
    minLetters |-> 0, maxWordCountCap |-> 3]}

CraneOptionChoices ==
  {[difficulty |-> d, minWordLen |-> 4, maxWordLen |-> 5, wordCount |-> 4,
    minLetters |-> 0, maxWordCountCap |-> WORD_COUNT + 8] : d \in Difficulties}

\* ------------------------------------------------------------------------
\* generateFeasiblePuzzle: the attempt loop and the solve() recursion
\* ------------------------------------------------------------------------
\* a solve() call: its sorted remaining list and the place of its two loops
\* (p over board.placements, s over the shared pairs); beside them the frame
\* remembers the board as it was before the tryPlace that led to the call
\* and as it was when the call was entered
Frame(remaining, before, entry) ==
  [remaining |-> SortByDegree(remaining, words), p |-> 1, s |-> 1,
   before |-> before, entry |-> entry]

\* the shared pairs of the frame's word with placement p
SharedAt(f, p) == OverlapsGet(words, f.remaining[1], board.placements[p].word)

\* the loops' next (p, s) at or after the frame's place, or none
HasCandidate(f) ==
  \E p \in f.p..Len(board.placements) :
    \E s \in 1..Len(SharedAt(f, p)) : p > f.p \/ s >= f.s
Candidate(f) ==
  LET p == CHOOSE p \in f.p..Len(board.placements) :
             /\ \E s \in 1..Len(SharedAt(f, p)) : p > f.p \/ s >= f.s
             /\ \A q \in f.p..(p - 1) :
                  ~\E s \in 1..Len(SharedAt(f, q)) : q > f.p \/ s >= f.s
  IN  [p |-> p, s |-> IF p > f.p THEN 1 ELSE f.s]

Top == stack[Len(stack)]

Init ==
  /\ \/ dictionary \in Dictionaries /\ opts \in OptionChoices
     \/ dictionary = CraneDictionary /\ opts \in CraneOptionChoices
     \/ dictionary = ChainDictionary /\ opts \in ChainOptionChoices
  /\ pc = "attempt"
  /\ adaptiveWordCount = Max2(1, opts.wordCount)
  /\ words = <<>>
  /\ board = EmptyBoard
  /\ stack = <<>>
  /\ out = NoOut
  /\ AssignIdle
  /\ WrapperIdle
  /\ UiIdle
  /\ PoolIdle

\* an iteration of the for(;;) of generateFeasiblePuzzle ends in `continue`:
\* one more failed attempt has run since the wrapper last suspended
FailedAttempt ==
  /\ unsuspended' = IF attempts > 0 THEN Min2(unsuspended + 1, MaxUnsuspended)
                                    ELSE unsuspended
  /\ UNCHANGED <<yieldEvery, attempts>>

\* lines 69-77: pick the words, build the board, place the anchor, call solve
SelectWords ==
  /\ pc = "attempt"
  /\ \E shuffled \in Shuffles(dictionary) :
       LET picked == pickConnectedWords(shuffled, opts.minWordLen, opts.maxWordLen,
                                        adaptiveWordCount)
       IN  IF picked.kind = "throw"
             THEN /\ pc' = "threw"
                  /\ out' = picked
                  /\ UNCHANGED <<words, board, stack>>
             ELSE /\ pc' = "solving"
                  /\ words' = picked.words
                  /\ board' = placeAnchor(EmptyBoard, picked.words[1])
                  /\ stack' = << [remaining |-> SortByDegree(Tail(picked.words), picked.words),
                                  p |-> 1, s |-> 1,
                                  before |-> placeAnchor(EmptyBoard, picked.words[1]),
                                  entry  |-> placeAnchor(EmptyBoard, picked.words[1])] >>
                  /\ out' = NoOut
  /\ UNCHANGED <<dictionary, opts, adaptiveWordCount, aVars, wVars, uVars, pVars>>

\* lines 474-481: the next tryPlace of the innermost solve(); on success
\* solve() recurses on remaining.slice(1)
TryPlaceStep ==
  /\ pc = "solving"
  /\ Len(Top.remaining) > 0
  /\ HasCandidate(Top)
  /\ LET cand   == Candidate(Top)
         placed == board.placements[cand.p]
         pair   == SharedAt(Top, cand.p)[cand.s]
         dir    == IF placed.dir = "H" THEN "V" ELSE "H"
         res    == tryPlace(board, Top.remaining[1], placed, pair.i, pair.j, dir)
     IN  IF res.ok
           THEN /\ board' = res.board
                /\ stack' = Append([stack EXCEPT ![Len(stack)].p = cand.p,
                                                 ![Len(stack)].s = cand.s],
                                   Frame(Tail(Top.remaining), board, res.board))
           ELSE /\ board' = res.board
                /\ stack' = [stack EXCEPT ![Len(stack)].p = cand.p,
                                          ![Len(stack)].s = cand.s + 1]
  /\ UNCHANGED <<dictionary, opts, pc, adaptiveWordCount, words, out, aVars, wVars, uVars, pVars>>

\* lines 486 and 481-482: the innermost solve() returns false and its caller
\* undoes the placement it made, then moves to its next pair
Backtrack ==
  /\ pc = "solving"
  /\ Len(stack) > 1
  /\ Len(Top.remaining) > 0
  /\ ~HasCandidate(Top)
  /\ LET callers == SubSeq(stack, 1, Len(stack) - 1)
         caller  == callers[Len(callers)]
     IN  /\ board' = Collect(undo(board, caller.remaining[1]))
         /\ stack' = [callers EXCEPT ![Len(callers)].s = caller.s + 1]
  /\ UNCHANGED <<dictionary, opts, pc, adaptiveWordCount, words, out, aVars, wVars, uVars, pVars>>

\* lines 77-80: the outermost solve() returned false: a fresh attempt
SolveFailed ==
  /\ pc = "solving"
  /\ Len(stack) = 1
  /\ Len(Top.remaining) > 0
  /\ ~HasCandidate(Top)
  /\ pc' = "attempt"
  /\ words' = <<>>
  /\ board' = EmptyBoard
  /\ stack' = <<>>
  /\ FailedAttempt
  /\ UNCHANGED <<dictionary, opts, adaptiveWordCount, out, aVars, uVars, pVars>>

\* a finalize that drops the last entry of the placement log as it reads it
SolveSucceededPopping ==
  /\ pc = "solving"
  /\ Len(Top.remaining) = 0
  /\ pc' = "finalized"
  /\ out' = [kind |-> "puzzle"] @@ finalize(board)
  /\ board' = [board EXCEPT !.placements = SubSeq(@, 1, Len(@) - 1)]
  /\ stack' = <<>>
  /\ UNCHANGED <<dictionary, opts, adaptiveWordCount, words, aVars, wVars, uVars, pVars>>

\* lines 469, 481 and 82: nothing remains, every solve() returns true, and
\* the board is finalized
SolveSucceeded ==
  /\ pc = "solving"
  /\ Len(Top.remaining) = 0
  /\ pc' = "finalized"
  /\ out' = [kind |-> "puzzle"] @@ finalize(board)
  /\ stack' = <<>>
  /\ UNCHANGED <<dictionary, opts, adaptiveWordCount, words, board, aVars, wVars, uVars, pVars>>

\* totalLetters < Math.min(minLetters, capacitySinglePerimeter * 4)
TooFewLetters ==
  /\ opts.minLetters > 0
  /\ Len(out.letters) < Min2(opts.minLetters, 4 * GridN(out.grid) * 4)

\* a retry that raises the word count whatever the cap is
DensityRetryUncapped ==
  /\ pc = "finalized"
  /\ TooFewLetters
  /\ adaptiveWordCount' = adaptiveWordCount + 1
  /\ pc' = "attempt"
  /\ words' = <<>>
  /\ board' = EmptyBoard
  /\ out' = NoOut
  /\ FailedAttempt
  /\ UNCHANGED <<dictionary, opts, stack, aVars, uVars, pVars>>

\* lines 88-94: the density target is missed: raise the word count (up to
\* the cap) and start a fresh attempt
DensityRetry ==
  /\ pc = "finalized"
  /\ TooFewLetters
  /\ adaptiveWordCount' = IF adaptiveWordCount < opts.maxWordCountCap
                            THEN adaptiveWordCount + 1 ELSE adaptiveWordCount
  /\ pc' = "attempt"
  /\ words' = <<>>
  /\ board' = EmptyBoard
  /\ out' = NoOut
  /\ FailedAttempt
  /\ UNCHANGED <<dictionary, opts, stack, aVars, uVars, pVars>>

\* lines 97-104: multi-wave assignment, then return out
AssignAndReturn ==
  /\ pc = "finalized"
  /\ ~TooFewLetters
  /\ LET assignment == assignOutsideSlotsInWaves(out.grid, out.letters, opts.difficulty)
     IN  IF assignment.kind = "throw"
           THEN pc' = "threw" /\ out' = assignment /\ UNCHANGED <<words, board, wVars>>
         ELSE IF assignment = NULL
           \* if (!assignment) continue
           THEN /\ pc' = "attempt" /\ out' = NoOut /\ words' = <<>> /\ board' = EmptyBoard
                /\ FailedAttempt
         ELSE /\ pc' = "returned"
              /\ out' = [slotAssignment |-> assignment] @@ out
              /\ UNCHANGED <<words, board, wVars>>
  /\ UNCHANGED <<dictionary, opts, adaptiveWordCount, stack, aVars, uVars, pVars>>

Next ==
  \/ SelectWords
  \/ TryPlaceStep
  \/ Backtrack
  \/ SolveFailed
  \/ SolveSucceeded
  \/ DensityRetry
  \/ AssignAndReturn

Spec == Init /\ [][Next]_vars

\* the phases of the loop in which the call is still running
Running == pc \in {"attempt", "solving", "finalized"}

\* the call moves on from the phase it is in
LeavePhase == Running /\ pc' \in {"attempt", "solving", "finalized", "returned", "threw"}

\* the call is a sequential loop whose phases are finite computations
\* (selection, finalize and assignment are single steps, solve() is a
\* bounded recursion): while it runs it leaves every phase it enters
SpecFair == Spec /\ WF_pc(LeavePhase)

\* ------------------------------------------------------------------------
\* generateFeasiblePuzzleAsync
\* ------------------------------------------------------------------------
AsyncDictionaries == {d \in Dictionaries : Len(d) <= MaxAsyncDict}

AsyncOptionChoices ==
  {o \in OptionChoices : o.difficulty = "balanced" /\ o.maxWordLen = 3
                            /\ o.wordCount <= MaxAsyncDict}

\* lines 126-131: attempts = 0, adaptiveWordCount = Math.max(1, wordCount),
\* then the first pass of the loop: attempts++ and the call of
\* generateFeasiblePuzzle with wordCount: adaptiveWordCount
InitAsync ==
  /\ dictionary \in AsyncDictionaries
  /\ opts \in AsyncOptionChoices
  /\ yieldEvery \in 1..MaxYieldEvery
  /\ attempts = 1
  /\ unsuspended = 0
  /\ pc = "attempt"
  /\ adaptiveWordCount = Max2(1, Max2(1, opts.wordCount))
  /\ words = <<>>
  /\ board = EmptyBoard
  /\ stack = <<>>
  /\ out = NoOut
  /\ AssignIdle
  /\ UiIdle
  /\ PoolIdle

\* JavaScript truthiness of the value generateFeasiblePuzzle returned: it is
\* always the object finalize built
Truthy(value) == value # NULL /\ value # NoOut

\* lines 133-136: generateFeasiblePuzzle returned; a truthy out resolves the
\* promise with {...out, attempts}; otherwise the wrapper suspends when
\* attempts % yieldEvery === 0 and goes round its loop (attempts++, next call)
AfterCall ==
  /\ attempts > 0
  /\ pc = "returned"
  /\ IF Truthy(out)
       THEN /\ pc' = "resolved"
            /\ out' = [attempts |-> attempts] @@ out
            /\ UNCHANGED <<attempts, unsuspended, adaptiveWordCount>>
       ELSE /\ unsuspended' = IF attempts % yieldEvery = 0 THEN 0 ELSE unsuspended
            /\ attempts' = attempts + 1
            /\ pc' = "attempt"
            /\ adaptiveWordCount' = Max2(1, adaptiveWordCount)
            /\ out' = NoOut
  /\ UNCHANGED <<dictionary, opts, yieldEvery, words, board, stack, aVars, uVars, pVars>>

NextAsync ==
  \/ Next
  \/ AfterCall

SpecAsync == InitAsync /\ [][NextAsync]_vars

\* ------------------------------------------------------------------------
\* The token UI (tokens.js, slots.js, state.js).  A token's el is TRUE while
\* its element sits in its slot; every removal in the code sets el to null.
\* u = [tokens, slotCursor, slotActive] is the part of State the routines
\* below read and write.
\* ------------------------------------------------------------------------
\* State.getSlotQueues().size is not 0
WaveMode == DOMAIN puzzle.slotAssignment.slotQueues # {}

\* State.getSlotQueue(slotId)
getSlotQueue(slotId) == puzzle.slotAssignment.slotQueues[slotId]

\* queue.indexOf(id), counted from 0; -1 when absent
IndexOf(queue, id) ==
  IF \E i \in 1..Len(queue) : queue[i] = id
    THEN (CHOOSE i \in 1..Len(queue) :
            queue[i] = id /\ \A j \in 1..(i - 1) : queue[j] # id) - 1
    ELSE -1

\* createTokenForCell(cellKey, info, letter): the previous element of the
\* same id is dropped, a new element is appended to the slot, the slot's
\* active token and the token record are set
createTokenForCell(u, cellKey, info, letter) ==
  [u EXCEPT
     !.tokens = (cellKey :> [id |-> cellKey, letter |-> letter, side |-> info.side,
                             index |-> info.index, slotId |-> info.id, el |-> TRUE,
                             placed |-> FALSE, currentCellKey |-> NoId,
                             wave |-> info.wave]) @@ u.tokens,
     !.slotActive[info.id] = cellKey]

RECURSIVE SkipPlaced(_, _, _)
\* slots.js: advance cursor past any already-placed tokens
SkipPlaced(u, queue, cursor) ==
  IF /\ cursor < Len(queue)
     /\ queue[cursor + 1] \in DOMAIN u.tokens
     /\ u.tokens[queue[cursor + 1]].placed
    THEN SkipPlaced(u, queue, cursor + 1)
    ELSE cursor

\* emitNextTokenIntoSlot(slotId)
emitNextTokenIntoSlot(u, slotId) ==
  IF ~WaveMode THEN u
  ELSE
    LET queue  == getSlotQueue(slotId)
        cursor == SkipPlaced(u, queue, u.slotCursor[slotId])
    IN  IF cursor >= Len(queue)
          THEN [u EXCEPT !.slotCursor[slotId] = cursor, !.slotActive[slotId] = NoId]
          ELSE
            LET cellKey == queue[cursor + 1]
            IN  createTokenForCell([u EXCEPT !.slotCursor[slotId] = cursor + 1],
                                   cellKey,
                                   puzzle.slotAssignment.byCell[cellKey],
                                   LetterAt(puzzle.letters, cellKey[1], cellKey[2]))

\* returnTokenToSlot, lines 125-146: another token shown in the slot is
\* taken out and the cursor is set back to its queue index
HideActive(u, tok) ==
  LET activeId == u.slotActive[tok.slotId]
  IN  IF activeId # NoId /\ activeId # tok.id /\ activeId \in DOMAIN u.tokens
        THEN LET idx == IndexOf(getSlotQueue(tok.slotId), activeId)
             IN  [u EXCEPT !.tokens[activeId].el = FALSE,
                           !.slotCursor[tok.slotId] =
                              IF idx # -1 THEN idx ELSE Max2(0, @ - 1)]
        ELSE u

\* returnTokenToSlot(tok)
returnTokenToSlot(u, tok) ==
  LET h     == IF WaveMode
                 THEN [HideActive(u, tok) EXCEPT !.slotActive[tok.slotId] = tok.id]
                 ELSE u
      shown == IF ~h.tokens[tok.id].el
                 THEN createTokenForCell(h, tok.id,
                        [id |-> tok.slotId, side |-> tok.side, index |-> tok.index,
                         wave |-> tok.wave],
                        tok.letter)
                 ELSE h
  IN  [shown EXCEPT !.tokens[tok.id].placed = FALSE,
                    !.tokens[tok.id].currentCellKey = NoId]

\* allTokensPlaced()
allTokensPlaced(toks) == \A id \in DOMAIN toks : toks[id].placed

\* renderTokensFromAssignment(letters, assignment) on a fresh State: in wave
\* mode the first cell of every non-empty queue gets its token and the
\* cursor of its slot is 1; otherwise every assigned cell gets its token
renderTokensFromAssignment(letters, assignment) ==
  LET ids    == DOMAIN assignment.slotQueues
      firsts == {assignment.slotQueues[s][1] :
                   s \in {t \in ids : Len(assignment.slotQueues[t]) > 0}}
      shown  == IF ids # {} THEN firsts ELSE DOMAIN assignment.byCell
  IN  [tokens     |-> [k \in shown |->
                         [id |-> k, letter |-> LetterAt(letters, k[1], k[2]),
                          side |-> assignment.byCell[k].side,
                          index |-> assignment.byCell[k].index,
                          slotId |-> assignment.byCell[k].id, el |-> TRUE,
                          placed |-> FALSE, currentCellKey |-> NoId,
                          wave |-> assignment.byCell[k].wave]],
       slotCursor |-> [s \in ids |->
                         IF Len(assignment.slotQueues[s]) > 0 THEN 1 ELSE 0],
       slotActive |-> [s \in ids |->
                         IF \E k \in shown : assignment.byCell[k].id = s
                           THEN CHOOSE k \in shown : assignment.byCell[k].id = s
                           ELSE NoId]]

\* ------------------------------------------------------------------------
\* The token UI: puzzles and the player's reach
\* ------------------------------------------------------------------------
\* smallest full grid whose cells outnumber two perimeters: whatever the
\* matching, some slot of it has a queue of three cells
DeepQueueSide == 9

\* the puzzle generateFeasiblePuzzle returns for a one-word selection
OneWordPuzzle(word, difficulty) ==
  LET f == finalize(placeAnchor(EmptyBoard, word))
  IN  [grid |-> f.grid, letters |-> f.letters, words |-> f.words,
       slotAssignment |-> assignOutsideSlotsInWaves(f.grid, f.letters, difficulty)]

\* a multi-wave assignment of the full N x N grid, of the shape
\* assignOutsideSlotsInWaves returns: the cells (r, r + d mod N) of diagonal
\* d lie in N rows and N columns, so four diagonals fill the 4N slots of a
\* wave; diagonal d is matched in wave d div 4, to the L, R, T or B slot of
\* its lane by d mod 4
DiagonalOf(N, key) == (key[2] - key[1] + N) % N
DiagonalSlot(N, key) ==
  LET d == DiagonalOf(N, key) % 4
  IN  CASE d = 0 -> MkSlot("L", key[1])
        [] d = 1 -> MkSlot("R", key[1])
        [] d = 2 -> MkSlot("T", key[2])
        [] d = 3 -> MkSlot("B", key[2])
FullGridAssignment(N) ==
  LET slots  == Slots(N)
      ids    == {slots[i].id : i \in DOMAIN slots}
      byCell == [key \in AllCells(N) |->
                   [side  |-> DiagonalSlot(N, key).side,
                    index |-> DiagonalSlot(N, key).index,
                    id    |-> DiagonalSlot(N, key).id,
                    wave  |-> DiagonalOf(N, key) \div 4]]
      queue(id) ==
        LET mine == {key \in AllCells(N) : byCell[key].id = id}
        IN  [w \in 1..Cardinality(mine) |->
               CHOOSE key \in mine : byCell[key].wave = w - 1]
  IN  [kind       |-> "assignment",
       byCell     |-> byCell,
       bySlot     |-> [id \in {i \in ids : Len(queue(i)) > 0} |-> queue(id)[1]],
       slotQueues |-> [id \in ids |-> queue(id)],
       slots      |-> slots]

\* the full N x N grid with that assignment
FullPuzzle(N) ==
  LET letters == RowMajor(N, AllCells(N))
  IN  [grid |-> GridOf(N, letters), letters |-> letters, words |-> <<>>,
       slotAssignment |-> FullGridAssignment(N)]

TokenPuzzles ==
  {OneWordPuzzle(WordUniverse[i], d) : i \in 1..Len(WordUniverse), d \in Difficulties}
    \cup {FullPuzzle(DeepQueueSide)}

\* on the full grid the player works one slot with a longest queue, and the
\* cells of that queue; on the small puzzles every slot and every cell
Deep == GridN(puzzle.grid) >= DeepQueueSide
DeepSlot ==
  CHOOSE s \in DOMAIN puzzle.slotAssignment.slotQueues :
    \A t \in DOMAIN puzzle.slotAssignment.slotQueues :
      Len(getSlotQueue(s)) >= Len(getSlotQueue(t))
PlayerSlots ==
  IF Deep THEN {DeepSlot} ELSE DOMAIN puzzle.slotAssignment.slotQueues
PlayerCells ==
  IF Deep THEN Range(getSlotQueue(DeepSlot)) ELSE AllCells(GridN(puzzle.grid))

InitTokens ==
  /\ puzzle \in TokenPuzzles
  /\ LET u == renderTokensFromAssignment(puzzle.letters, puzzle.slotAssignment)
     IN  /\ tokens = u.tokens
         /\ slotCursor = u.slotCursor
         /\ slotActive = u.slotActive
  /\ selectedTokenId = NoId
  /\ cellTokenId = [cell \in AllCells(GridN(puzzle.grid)) |-> NoId]
  /\ validationStarted = FALSE
  /\ AssignIdle
  /\ GenIdle
  /\ WrapperIdle
  /\ PoolIdle

\* a click on a token shown in a slot: selectToken(tokenId)
SelectToken ==
  /\ \E id \in DOMAIN tokens :
       /\ tokens[id].el
       /\ tokens[id].slotId \in PlayerSlots
       /\ selectedTokenId' = id
  /\ validationStarted' = FALSE
  /\ UNCHANGED <<puzzle, tokens, slotCursor, slotActive, cellTokenId>>
  /\ UNCHANGED <<aVars, gVars, wVars, pVars>>

\* onBoardCellClick on an occupied cell, lines 179-190: the cell is cleared
\* and its token goes back to its slot
ReturnClick ==
  /\ \E cell \in PlayerCells :
       /\ cellTokenId[cell] # NoId
       /\ cellTokenId[cell] \in DOMAIN tokens
       /\ LET u == returnTokenToSlot(
                     [tokens |-> tokens, slotCursor |-> slotCursor,
                      slotActive |-> slotActive],
                     tokens[cellTokenId[cell]])
          IN  /\ tokens' = u.tokens
              /\ slotCursor' = u.slotCursor
              /\ slotActive' = u.slotActive
       /\ cellTokenId' = [cellTokenId EXCEPT ![cell] = NoId]
  /\ selectedTokenId' = NoId
  /\ validationStarted' = FALSE
  /\ UNCHANGED puzzle
  /\ UNCHANGED <<aVars, gVars, wVars, pVars>>

\* onBoardCellClick on an empty cell, lines 192-241: the selected token is
\* put on a fillable cell of its lane, the next token of its slot is
\* emitted, and the completion check runs
PlaceClick ==
  /\ selectedTokenId # NoId
  /\ selectedTokenId \in DOMAIN tokens
  /\ ~tokens[selectedTokenId].placed
  /\ \E cell \in PlayerCells :
       LET tok == tokens[selectedTokenId]
           u1  == [tokens     |-> [tokens EXCEPT ![tok.id].el = FALSE,
                                                 ![tok.id].placed = TRUE,
                                                 ![tok.id].currentCellKey = cell],
                   slotCursor |-> slotCursor,
                   slotActive |-> [slotActive EXCEPT ![tok.slotId] = NoId]]
           u2  == emitNextTokenIntoSlot(u1, tok.slotId)
       IN  /\ cellTokenId[cell] = NoId
           /\ puzzle.grid[cell[1]][cell[2]] = 1
           /\ IF tok.side \in {"L", "R"} THEN cell[1] = tok.index
                                         ELSE cell[2] = tok.index
           /\ cellTokenId' = [cellTokenId EXCEPT ![cell] = tok.id]
           /\ tokens' = u2.tokens
           /\ slotCursor' = u2.slotCursor
           /\ slotActive' = u2.slotActive
           /\ validationStarted' = allTokensPlaced(u2.tokens)
  /\ selectedTokenId' = NoId
  /\ UNCHANGED puzzle
  /\ UNCHANGED <<aVars, gVars, wVars, pVars>>

NextTokens ==
  \/ SelectToken
  \/ ReturnClick
  \/ PlaceClick

SpecTokens == InitTokens /\ [][NextTokens]_vars

\* ------------------------------------------------------------------------
\* The pool script (scripts/generate-puzzles.mjs)
\* ------------------------------------------------------------------------
\* map.get(key) on a Map held as its entries, or UNDEFINED
EntriesGet(entries, key) ==
  IF \E m \in 1..Len(entries) : entries[m][1] = key
    THEN entries[CHOOSE m \in 1..Len(entries) : entries[m][1] = key][2]
    ELSE UNDEFINED

\* map.set(key, value) on a Map held as its entries
EntriesSet(entries, key, value) == LettersSet(<< <<key, value>> >>, 1, entries)

RECURSIVE KeysByWave(_, _, _)
\* assignment.byCell.entries(): the keys as assignOutsideSlotsInWaves set them,
\* wave after wave; the cells of one wave have distinct slots
KeysByWave(byCell, rest, acc) ==
  IF rest = {} THEN acc
  ELSE LET k == CHOOSE k \in rest : \A j \in rest : byCell[k].wave <= byCell[j].wave
       IN  KeysByWave(byCell, rest \ {k}, Append(acc, k))

\* Math.floor((targetN - n) / 2)
PadOf(n, targetN) == (targetN - n) \div 2

padGridToSize(grid, letters, targetN) ==
  LET n       == GridN(grid)
      padTop  == PadOf(n, targetN)
      padLeft == PadOf(n, targetN)
  IN  [grid    |-> [r \in 0..(targetN - 1) |-> [c \in 0..(targetN - 1) |->
                      IF (r - padTop) \in 0..(n - 1) /\ (c - padLeft) \in 0..(n - 1)
                        THEN grid[r - padTop][c - padLeft] ELSE 0]],
       letters |-> LettersSet([m \in 1..Len(letters) |->
                                 << <<letters[m][1][1] + padTop,
                                      letters[m][1][2] + padLeft>>,
                                    letters[m][2] >>], 1, <<>>),
       padTop  |-> padTop,
       padLeft |-> padLeft]

\* const add = (side === 'L' || side === 'R') ? padTop : padLeft
ShiftAdd(side, padTop, padLeft) == IF side \in {"L", "R"} THEN padTop ELSE padLeft

RECURSIVE ShiftEntries(_, _, _, _, _)
\* for (const [key, info] of assignment.byCell.entries()) { ... }
ShiftEntries(byCell, keys, padTop, padLeft, acc) ==
  IF Len(keys) = 0 THEN acc
  ELSE LET key      == Head(keys)
           info     == byCell[key]
           newKey   == <<key[1] + padTop, key[2] + padLeft>>
           newIndex == info.index + ShiftAdd(info.side, padTop, padLeft)
           newId    == <<info.side, newIndex>>
       IN  ShiftEntries(byCell, Tail(keys), padTop, padLeft,
             [byCell |-> EntriesSet(acc.byCell, newKey,
                           [side |-> info.side, index |-> newIndex, id |-> newId]),
              bySlot |-> EntriesSet(acc.bySlot, newId, newKey)])

\* the Maps of the result are held as their entries, which is what
\* serializeMap writes
shiftSlotAssignmentKeys(assignment, padTop, padLeft) ==
  IF assignment = NULL THEN NULL
  ELSE LET maps == ShiftEntries(assignment.byCell,
                                KeysByWave(assignment.byCell,
                                           DOMAIN assignment.byCell, <<>>),
                                padTop, padLeft,
                                [byCell |-> <<>>, bySlot |-> <<>>])
       IN  [byCell |-> maps.byCell,
            bySlot |-> maps.bySlot,
            slots  |-> [i \in DOMAIN assignment.slots |->
                          LET sl == assignment.slots[i]
                          IN  MkSlot(sl.side,
                                     sl.index + ShiftAdd(sl.side, padTop, padLeft))]]

\* the entry generateBatch pushes for a raw puzzle
PoolEntry(raw, N) ==
  LET padded  == padGridToSize(raw.grid, raw.letters, N)
      shifted == shiftSlotAssignmentKeys(raw.slotAssignment,
                                         padded.padTop, padded.padLeft)
  IN  [kind |-> "pool puzzle", N |-> N, grid |-> padded.grid,
       letters |-> padded.letters,
       slotAssignment |-> [byCell |-> shifted.byCell, bySlot |-> shifted.bySlot,
                           slots |-> shifted.slots],
       words |-> raw.words]

\* one long word and four that cross it in every other column: on a side of
\* seven they hold more letters than the 28 slots of one wave
CombDictionary ==
  << <<"A", "E", "B", "F", "C", "G", "D">>,
     <<"A", "P", "P", "P", "P", "P", "P">>,
     <<"B", "Q", "Q", "Q", "Q", "Q", "Q">>,
     <<"C", "R", "R", "R", "R", "R", "R">>,
     <<"D", "S", "S", "S", "S", "S", "S">> >>

MIN_WORD_LEN == 4
CombPresetN == 9    \* preset.N of the batch drawn from CombDictionary
CranePresetN == 6   \* preset.N of the batch drawn from CraneDictionary
ShortPresetN == 4   \* preset.N of the batches drawn from the word universe

\* SIZE_PRESETS, scaled to the dictionaries; generateBatch passes
\* difficulty, minWordLen, maxWordLen and wordCount and leaves the rest to the
\* defaults of generateFeasiblePuzzle
PoolPresets ==
  {[N |-> CombPresetN, dictionary |-> CombDictionary,
    options |-> [difficulty |-> d, minWordLen |-> MIN_WORD_LEN, maxWordLen |-> 7,
                 wordCount |-> 5, minLetters |-> 0,
                 maxWordCountCap |-> WORD_COUNT + 8]] : d \in Difficulties}
  \cup
  {[N |-> CranePresetN, dictionary |-> CraneDictionary, options |-> o] :
     o \in CraneOptionChoices}
  \cup
  {[N |-> ShortPresetN, dictionary |-> dict,
    options |-> [difficulty |-> "balanced", minWordLen |-> 2, maxWordLen |-> 3,
                 wordCount |-> 3, minLetters |-> 0,
                 maxWordCountCap |-> WORD_COUNT + 8]] : dict \in Dictionaries}

InitPool ==
  /\ \E preset \in PoolPresets :
       /\ presetN = preset.N
       /\ dictionary = preset.dictionary
       /\ opts = preset.options
  /\ pc = "attempt"
  /\ adaptiveWordCount = Max2(1, opts.wordCount)
  /\ words = <<>>
  /\ board = EmptyBoard
  /\ stack = <<>>
  /\ out = NoOut
  /\ poolPuzzle = NoOut
  /\ AssignIdle
  /\ WrapperIdle
  /\ UiIdle

\* generatePuzzleWithinSizeGuaranteed: the raw grid is larger than preset.N,
\* so generateFeasiblePuzzle is called again
RegenerateOversize ==
  /\ presetN > 0
  /\ pc = "returned"
  /\ GridN(out.grid) > presetN
  /\ pc' = "attempt"
  /\ adaptiveWordCount' = Max2(1, opts.wordCount)
  /\ words' = <<>>
  /\ board' = EmptyBoard
  /\ stack' = <<>>
  /\ out' = NoOut
  /\ UNCHANGED <<dictionary, opts, aVars, wVars, uVars, pVars>>

\* generateBatch 162-175: pad the raw puzzle, shift its assignment and push
\* the serialised entry
PushPoolPuzzle ==
  /\ presetN > 0
  /\ pc = "returned"
  /\ GridN(out.grid) <= presetN
  /\ poolPuzzle = NoOut
  /\ poolPuzzle' = PoolEntry(out, presetN)
  /\ UNCHANGED <<presetN, aVars, gVars, wVars, uVars>>

NextPool ==
  \/ SelectWords
  \/ TryPlaceStep
  \/ Backtrack
  \/ SolveFailed
  \/ SolveSucceeded
  \/ AssignAndReturn
  \/ RegenerateOversize
  \/ PushPoolPuzzle

SpecPool == InitPool /\ [][NextPool]_vars

\* ========================================================================
\* Properties of the outside-slot assigners (checked under SpecAssign)
\* ========================================================================
BruteLimit == 6    \* letter counts up to which matchings are also enumerated

LetterKeys == Range(MapKeys(aLetters))
LettersInRange == LetterKeys \subseteq AllCells(GridN(aGrid))

SingleCalled == aSingle # NotCalled
WavesCalled  == aWaves # NotCalled
SingleReturned == SingleCalled /\ aSingle.result.kind = "assignment"
WavesReturned  == WavesCalled /\ aWaves.result.kind = "assignment"

\* the slot (side, index) serves the lane of cell key
InOwnLane(key, side, index) ==
  \/ side \in {"L", "R"} /\ index = key[1]
  \/ side \in {"T", "B"} /\ index = key[2]

\* the four slots of a cell, by candidate number
CandidateSlot(key, n) ==
  CASE n = 1 -> <<"L", key[1]>>
    [] n = 2 -> <<"R", key[1]>>
    [] n = 3 -> <<"T", key[2]>>
    [] n = 4 -> <<"B", key[2]>>

\* Hall's condition for the cell/slot graph.  The cells lying in rows R and
\* columns C have the 2(|R| + |C|) slots of those lanes between them, so the
\* deficiency of (R, C) is |cells in R x C| - 2|R| - 2|C|.  For fixed R the
\* worst C takes exactly the columns holding more than two cells of R, each
\* contributing its cell count less two.
Lanes == 0..(GridN(aGrid) - 1)
Excess(R, c) ==
  LET n == Cardinality({k \in LetterKeys : k[1] \in R /\ k[2] = c})
  IN  IF n > 2 THEN n - 2 ELSE 0
RECURSIVE SumExcess(_, _)
SumExcess(R, c) == IF c < 0 THEN 0 ELSE Excess(R, c) + SumExcess(R, c - 1)
Deficiency(R) == SumExcess(R, GridN(aGrid) - 1) - 2 * Cardinality(R)
HallHolds == \A R \in SUBSET Lanes : Deficiency(R) <= 0
\* Koenig-Ore: a maximum matching has |cells| - (the largest deficiency) edges
IsMaxMatchingSize(m) ==
  LET d == Cardinality(LetterKeys) - m
  IN  /\ \A R \in SUBSET Lanes : Deficiency(R) <= d
      /\ \E R \in SUBSET Lanes : Deficiency(R) = d

\* by enumeration: an injective choice of one own-lane slot for every cell
InjectiveChoiceExists ==
  \E f \in [LetterKeys -> 1..4] :
    \A k1, k2 \in LetterKeys :
      k1 # k2 => CandidateSlot(k1, f[k1]) # CandidateSlot(k2, f[k2])
\* C2: in every assignment returned by assignOutsideSlots or
\* assignOutsideSlotsInWaves each cell is assigned only to a slot of its own
\* lanes (L:r or R:r of its row, T:c or B:c of its column), in byCell and in
\* the slot queues alike.
C2_SlotInOwnLane ==
  /\ SingleReturned =>
       \A k \in DOMAIN aSingle.result.byCell :
         LET a == aSingle.result.byCell[k]
         IN  InOwnLane(k, a.side, a.index) /\ a.id = <<a.side, a.index>>
  /\ WavesReturned =>
       /\ \A k \in DOMAIN aWaves.result.byCell :
            LET a == aWaves.result.byCell[k]
            IN  InOwnLane(k, a.side, a.index) /\ a.id = <<a.side, a.index>>
       /\ \A id \in DOMAIN aWaves.result.slotQueues :
            \A i \in DOMAIN aWaves.result.slotQueues[id] :
              InOwnLane(aWaves.result.slotQueues[id][i], id[1], id[2])

\* both assigners returned, and the cells use row slots and column slots
C2_Witness ==
  /\ SingleReturned /\ WavesReturned
  /\ \E k1, k2 \in DOMAIN aSingle.result.byCell :
       /\ aSingle.result.byCell[k1].side \in {"L", "R"}
       /\ aSingle.result.byCell[k2].side \in {"T", "B"}
  /\ \E k1, k2 \in DOMAIN aWaves.result.byCell :
       /\ aWaves.result.byCell[k1].side \in {"L", "R"}
       /\ aWaves.result.byCell[k2].side \in {"T", "B"}

\* the (slot, position) places of the queues that hold cell key
QueuePlaces(key) ==
  {p \in UNION {{<<id, i>> : i \in DOMAIN aWaves.result.slotQueues[id]} :
                  id \in DOMAIN aWaves.result.slotQueues} :
     aWaves.result.slotQueues[p[1]][p[2]] = key}

\* C3: for letters with in-range keys, assignOutsideSlotsInWaves places every
\* letter cell in exactly one slot's queue exactly once, byCell gives the cell
\* that slot and a wave index, and the queues hold nothing but letter cells.
C3_EveryCellQueuedOnce ==
  (WavesCalled /\ LettersInRange) =>
    /\ aWaves.result.kind = "assignment"
    /\ DOMAIN aWaves.result.byCell = LetterKeys
    /\ \A key \in LetterKeys :
         /\ Cardinality(QueuePlaces(key)) = 1
         /\ \A p \in QueuePlaces(key) : p[1] = aWaves.result.byCell[key].id
         /\ aWaves.result.byCell[key].wave \in 0..(aWaves.waves - 1)
    /\ \A id \in DOMAIN aWaves.result.slotQueues :
         Range(aWaves.result.slotQueues[id]) \subseteq LetterKeys

\* more letters than slots: a second wave ran and some queue holds two cells
C3_Witness ==
  /\ WavesReturned /\ LettersInRange
  /\ aWaves.waves >= 2
  /\ \E id \in DOMAIN aWaves.result.slotQueues : Len(aWaves.result.slotQueues[id]) = 2

\* C4: whenever assignOutsideSlots returns an assignment, byCell has an entry
\* for every key of letters, no two cells map to the same slot id, and bySlot
\* is exactly the inverse of byCell.
C4_SingleWaveMatchingValid ==
  SingleReturned =>
    LET byCell == aSingle.result.byCell
        bySlot == aSingle.result.bySlot
    IN  /\ DOMAIN byCell = LetterKeys
        /\ \A k1, k2 \in LetterKeys : k1 # k2 => byCell[k1].id # byCell[k2].id
        /\ DOMAIN bySlot = {byCell[k].id : k \in LetterKeys}
        /\ \A k \in LetterKeys : bySlot[byCell[k].id] = k

\* a matching that fills the whole perimeter of a 5 x 5 grid
C4_Witness ==
  /\ SingleReturned
  /\ Len(aLetters) = 4 * GridN(aGrid)
  /\ GridN(aGrid) >= 4

\* C8 as stated: for any grid and any letters map the multi-wave assigner
\* returns an assignment (never null, never an error) whose byCell has an
\* entry for every key of letters.
C8_NeverFailsAnyLetters ==
  WavesCalled =>
    /\ aWaves.result.kind = "assignment"
    /\ LetterKeys \subseteq DOMAIN aWaves.result.byCell

\* C8 amended: the same for every letters map whose keys all lie inside the
\* grid; the zero-match break is not taken.
C8_SucceedsOnInRangeKeys ==
  (WavesCalled /\ LettersInRange) =>
    /\ aWaves.result.kind = "assignment"
    /\ LetterKeys \subseteq DOMAIN aWaves.result.byCell
    /\ ~aWaves.zeroBreak

\* an in-range call that needed more than one wave and returned
C8_Witness ==
  /\ WavesReturned /\ LettersInRange
  /\ Len(aLetters) > 4 * GridN(aGrid)
  /\ aWaves.waves >= 2

\* C9: for letters with in-range keys, assignOutsideSlots returns null if and
\* only if no perfect matching exists (Hall's condition fails; for small
\* letter sets also: no injective choice of own-lane slots exists), and the
\* matching it computes has maximum size.
C9_NullIffNoPerfectMatching ==
  (SingleCalled /\ LettersInRange) =>
    /\ (aSingle.result = NULL) <=> ~HallHolds
    /\ aSingle.matching # -1 => IsMaxMatchingSize(aSingle.matching)
    /\ Len(aLetters) <= BruteLimit =>
         ((aSingle.result = NULL) <=> ~InjectiveChoiceExists)

\* null although the cells do not outnumber the slots: Hopcroft-Karp ran and
\* stopped short of the cell count
C9_Witness ==
  /\ SingleCalled /\ LettersInRange
  /\ aSingle.result = NULL
  /\ aSingle.matching >= 0
  /\ aSingle.matching < Len(aLetters)

\* the outcome of assignOutsideSlots on the same grid and letters under
\* difficulty d
SingleUnder(d) == SingleWave(aGrid, aLetters, d)

\* C12: difficulty changes only which matching is found: on the same grid
\* and letters assignOutsideSlots returns null under one difficulty iff it
\* does under all three, Hopcroft-Karp stops at the same matching count, and
\* every non-null result matches the same number of cells.
C12_DifficultyNeverDecidesExistence ==
  SingleCalled =>
    \A d \in Difficulties :
      /\ (SingleUnder(d).result = NULL) <=> (aSingle.result = NULL)
      /\ SingleUnder(d).matching = aSingle.matching
      /\ aSingle.result # NULL =>
           Cardinality(DOMAIN SingleUnder(d).result.byCell)
             = Cardinality(DOMAIN aSingle.result.byCell)

\* a returned assignment that another difficulty would have made differently
C12_Witness ==
  /\ SingleReturned
  /\ \E d \in Difficulties :
       /\ SingleUnder(d).result # NULL
       /\ SingleUnder(d).result.byCell # aSingle.result.byCell

\* byCell.get(key).wave in the multi-wave result
WaveOf(key) == aWaves.result.byCell[key].wave
SlotQueue(id) == aWaves.result.slotQueues[id]
SlotIds == DOMAIN aWaves.result.slotQueues

\* C17: in the result of assignOutsideSlotsInWaves the cells of one wave form
\* an injective partial matching: no two cells with the same wave index have
\* the same slot, and no queue holds two cells of one wave.
C17_WaveIsInjective ==
  WavesReturned =>
    /\ \A k1, k2 \in DOMAIN aWaves.result.byCell :
         (k1 # k2 /\ WaveOf(k1) = WaveOf(k2)) =>
           aWaves.result.byCell[k1].id # aWaves.result.byCell[k2].id
    /\ \A id \in SlotIds :
         \A i, j \in DOMAIN SlotQueue(id) :
           i # j => WaveOf(SlotQueue(id)[i]) # WaveOf(SlotQueue(id)[j])

\* three waves ran, and the first filled every slot of the perimeter
C17_Witness ==
  /\ WavesReturned
  /\ aWaves.waves >= 3
  /\ Cardinality({k \in DOMAIN aWaves.result.byCell : WaveOf(k) = 0})
       = 4 * GridN(aGrid)

\* C18: within every slot's queue the wave indices of the queued cells are
\* strictly increasing by queue position.
C18_QueueWavesIncrease ==
  WavesReturned =>
    \A id \in SlotIds :
      \A i, j \in DOMAIN SlotQueue(id) :
        i < j => WaveOf(SlotQueue(id)[i]) < WaveOf(SlotQueue(id)[j])

\* a queue of three cells
C18_Witness ==
  /\ WavesReturned
  /\ \E id \in SlotIds : Len(SlotQueue(id)) >= 3

\* the cells not yet assigned when wave k starts, and those wave k matches
UnassignedAt(k) == {key \in DOMAIN aWaves.result.byCell : WaveOf(key) >= k}
MatchedIn(k) == {key \in DOMAIN aWaves.result.byCell : WaveOf(key) = k}

\* Hall deficiency of the rows R for a set S of cells (see Deficiency)
ExcessOf(S, R, c) ==
  LET n == Cardinality({k \in S : k[1] \in R /\ k[2] = c})
  IN  IF n > 2 THEN n - 2 ELSE 0
RECURSIVE SumExcessOf(_, _, _)
SumExcessOf(S, R, c) ==
  IF c < 0 THEN 0 ELSE ExcessOf(S, R, c) + SumExcessOf(S, R, c - 1)
DeficiencyOf(S, R) == SumExcessOf(S, R, GridN(aGrid) - 1) - 2 * Cardinality(R)
\* m is the size of a maximum matching of the cells S to their own-lane slots
IsMaxMatchingSizeOf(S, m) ==
  LET d == Cardinality(S) - m
  IN  /\ \A R \in SUBSET Lanes : DeficiencyOf(S, R) <= d
      /\ \E R \in SUBSET Lanes : DeficiencyOf(S, R) = d

\* C19 as stated: every wave is a perfect matching on the cells not yet
\* assigned: each cell still unassigned when a wave starts is matched in it.
C19_WaveMatchesAllUnassigned ==
  WavesReturned =>
    \A k \in 0..(aWaves.waves - 1) : UnassignedAt(k) \subseteq MatchedIn(k)

\* C19 amended: every wave is a maximum matching on the cells not yet
\* assigned (it matches at least one, and all of them exactly when they have
\* a perfect matching); the cells it leaves stay for the next wave.
C19_WaveIsMaximumMatching ==
  WavesReturned =>
    \A k \in 0..(aWaves.waves - 1) :
      /\ MatchedIn(k) # {}
      /\ aWaves.sizes[k + 1] = Cardinality(MatchedIn(k))
      /\ IsMaxMatchingSizeOf(UnassignedAt(k), Cardinality(MatchedIn(k)))
      /\ (UnassignedAt(k) \subseteq MatchedIn(k))
           <=> \A R \in SUBSET Lanes : DeficiencyOf(UnassignedAt(k), R) <= 0

\* a second wave that left cells for a third although slots were free:
\* neither wave 0 nor wave 1 was perfect
C19_Witness ==
  /\ WavesReturned
  /\ aWaves.waves >= 3
  /\ Cardinality(MatchedIn(1)) < Cardinality(UnassignedAt(1))

\* C21: under every difficulty, every wave of assignOutsideSlotsInWaves is a
\* maximum matching of the cells still unassigned when it starts: no
\* lane-respecting injective assignment of those cells covers more of them
\* than the wave does, and the loop never stops on an empty wave.
C21_EveryWaveMaximumAnyDifficulty ==
  \A d \in Difficulties :
    (WavesReturned /\ aDifficulty = d) =>
      /\ ~aWaves.zeroBreak
      /\ Len(aWaves.sizes) = aWaves.waves
      /\ UnassignedAt(0) = LetterKeys
      /\ \A k \in 0..(aWaves.waves - 1) :
           IsMaxMatchingSizeOf(UnassignedAt(k), aWaves.sizes[k + 1])

\* a call under the hard ordering whose first wave fills the perimeter and
\* whose second wave again leaves cells for a third
C21_Witness ==
  /\ WavesReturned
  /\ aDifficulty = "hard"
  /\ aWaves.waves >= 3
  /\ aWaves.sizes[1] = 4 * GridN(aGrid)
  /\ aWaves.sizes[2] < Cardinality(UnassignedAt(1))

\* C20: for every slot and every position i (from 0) of its queue the cell
\* at position i has wave index i, so a slot used in wave k was used in
\* every wave before, and bySlot holds exactly the wave-0 cell of every slot
\* with a non-empty queue.
C20_QueuePositionIsWave ==
  WavesReturned =>
    /\ \A id \in SlotIds :
         \A i \in DOMAIN SlotQueue(id) : WaveOf(SlotQueue(id)[i]) = i - 1
    /\ DOMAIN aWaves.result.bySlot = {id \in SlotIds : Len(SlotQueue(id)) > 0}
    /\ \A id \in DOMAIN aWaves.result.bySlot :
         /\ WaveOf(aWaves.result.bySlot[id]) = 0
         /\ aWaves.result.byCell[aWaves.result.bySlot[id]].id = id

\* a third wave used some slots and left others at two cells
C20_Witness ==
  /\ WavesReturned
  /\ \E id \in SlotIds : Len(SlotQueue(id)) = 3
  /\ \E id \in SlotIds : Len(SlotQueue(id)) = 2

\* ========================================================================
\* Properties of generateFeasiblePuzzle
\* ========================================================================
Finalized == pc \in {"finalized", "returned"}
LiveCells == [n \in 1..Len(board.cells) |-> board.heap[board.cells[n]]]
MinR == SetMin({LiveCells[n].r : n \in 1..Len(LiveCells)})
MinC == SetMin({LiveCells[n].c : n \in 1..Len(LiveCells)})

\* C1: for every output of finalize on a board with at least one cell, grid
\* is an N x N square matrix of 0/1, grid[r][c] = 1 exactly when the key r,c
\* is in letters, and letters has no key outside [0,N) x [0,N).
C1_GridLettersConsistent ==
  (Finalized /\ Len(board.cells) > 0) =>
    LET N    == GridN(out.grid)
        keys == Range(MapKeys(out.letters))
    IN  /\ N >= 1
        /\ DOMAIN out.grid = 0..(N - 1)
        /\ \A r \in 0..(N - 1) : DOMAIN out.grid[r] = 0..(N - 1)
        /\ \A r, c \in 0..(N - 1) :
             /\ out.grid[r][c] \in {0, 1}
             /\ out.grid[r][c] = 1 <=> <<r, c>> \in keys
        /\ keys \subseteq AllCells(N)

\* a returned puzzle that is not as wide as high, with empty cells, whose
\* board extended above row 0 (so the shift moved every cell)
C1_Witness ==
  /\ pc = "returned"
  /\ GridN(out.grid) >= 3
  /\ Len(out.letters) < GridN(out.grid) * GridN(out.grid)
  /\ MinR < 0

\* the cell a placement's k-th letter lies on, in finalized coordinates
PlacementReads(pl) ==
  LET first == board.heap[pl.cells[1]]
  IN  \A k \in 1..Len(pl.word) :
        LetterAt(out.letters,
                 first.r - MinR + (IF pl.dir = "V" THEN k - 1 ELSE 0),
                 first.c - MinC + (IF pl.dir = "H" THEN k - 1 ELSE 0)) = pl.word[k]

\* C5: for every finalized puzzle and every placement the packer accepted
\* (every entry of board.placements), reading the grid's letters from the
\* placement's first cell along its direction reproduces the word.
C5_PlacementsReadOnGrid ==
  (Finalized /\ Len(board.cells) > 0) =>
    \A n \in 1..Len(board.placements) : PlacementReads(board.placements[n])

Adjacent(a, b) ==
  \/ a.r = b.r /\ (a.c - b.c = 1 \/ b.c - a.c = 1)
  \/ a.c = b.c /\ (a.r - b.r = 1 \/ b.r - a.r = 1)

\* x and y are consecutive cells of one placement
ConsecutiveInPlacement(x, y) ==
  \E n \in 1..Len(board.placements) :
    \E k \in 1..(Len(board.placements[n].cells) - 1) :
      {board.placements[n].cells[k], board.placements[n].cells[k + 1]} = {x, y}

\* the live cell behind a key of the finalized letters
CellOfKey(key) ==
  CHOOSE x \in Range(board.cells) :
    board.heap[x].r - MinR = key[1] /\ board.heap[x].c - MinC = key[2]

\* C6: in every board state of the packer any two orthogonally adjacent live
\* cells are consecutive cells of one placement, and so are any two adjacent
\* fillable cells of a finalized grid.
C6_AdjacentCellsShareWord ==
  /\ \A x, y \in Range(board.cells) :
       Adjacent(board.heap[x], board.heap[y]) => ConsecutiveInPlacement(x, y)
  /\ (Finalized /\ Len(board.cells) > 0) =>
       \A k1, k2 \in Range(MapKeys(out.letters)) :
         Adjacent([r |-> k1[1], c |-> k1[2]], [r |-> k2[1], c |-> k2[2]]) =>
           /\ out.grid[k1[1]][k1[2]] = 1
           /\ out.grid[k2[1]][k2[2]] = 1
           /\ ConsecutiveInPlacement(CellOfKey(k1), CellOfKey(k2))

\* a finalized board of at least three placements: a vertical word and, past
\* the anchor, a horizontal one placed across a vertical one
C6_Witness ==
  /\ Finalized
  /\ Len(board.placements) >= 3
  /\ \E n \in 1..Len(board.placements) : board.placements[n].dir = "V"
  /\ \E n \in 2..Len(board.placements) : board.placements[n].dir = "H"

\* C7: no selection error ('No words in dictionary range', 'Insufficient
\* overlap') is ever surfaced to the caller of generateFeasiblePuzzle.
C7_NoSelectionErrorSurfaced ==
  ~(pc = "threw" /\ out \in {THROW_NO_WORDS, THROW_INSUFFICIENT})

\* C10: with minLetters above what any packing reaches, a call that has
\* finalized a board comes to an end (the claim asks that it ends with a
\* returned puzzle).
C10_EndsWithUnreachableMinLetters ==
  (pc = "finalized" /\ opts.minLetters = UnreachableMinLetters)
    ~> (pc \in {"returned", "threw"})

PairwiseDistinct(list) ==
  \A i, j \in 1..Len(list) : i # j => list[i] # list[j]

\* C15: whenever pickConnectedWords returns, the list has exactly wordCount
\* entries, pairwise distinct, each a dictionary word with a length in
\* [minWordLen, maxWordLen].
C15_SelectionExactDistinctInRange ==
  words # <<>> =>
    /\ Len(words) = adaptiveWordCount
    /\ PairwiseDistinct(words)
    /\ \A i \in 1..Len(words) :
         /\ words[i] \in Range(dictionary)
         /\ Len(words[i]) >= opts.minWordLen
         /\ Len(words[i]) <= opts.maxWordLen

\* C16: for every ordered pair of distinct selected words A, B the overlap
\* entry holds the pair {i, j} exactly when A[i] = B[j], each once, is absent
\* exactly when A and B share no letter, and mirrors the entry of (B, A).
C16_OverlapMapExact ==
  \A A, B \in Range(words) :
    A # B =>
      LET ab == OverlapsGet(words, A, B)
          ba == OverlapsGet(words, B, A)
      IN  /\ \A i \in 1..Len(A), j \in 1..Len(B) :
               ([i |-> i, j |-> j] \in Range(ab)) <=> (A[i] = B[j])
          /\ \A n \in 1..Len(ab) : ab[n].i \in 1..Len(A) /\ ab[n].j \in 1..Len(B)
          /\ PairwiseDistinct(ab)
          /\ (ab = <<>>) <=> ~sharesLetter(A, B)
          /\ \A i \in 1..Len(A), j \in 1..Len(B) :
               ([i |-> i, j |-> j] \in Range(ab)) <=> ([i |-> j, j |-> i] \in Range(ba))

\* selected words with two shared positions one way and none the other:
\* ABA and BA share letters, BC and ABA share B, and a word sharing nothing
\* with another is among them
C16_Witness ==
  /\ pc = "solving"
  /\ \E A, B \in Range(words) : A # B /\ Len(OverlapsGet(words, A, B)) >= 3
  /\ \E A, B \in Range(words) : A # B /\ OverlapsGet(words, A, B) = <<>>

\* C13: under generateFeasiblePuzzleAsync no more than yieldEvery failed
\* generation attempts ever run without a suspension between them.
C13_SuspendsEveryYieldEvery ==
  attempts > 0 => unsuspended <= yieldEvery

\* placements n and m cross: perpendicular, with exactly one cell in common
Crosses(n, m) ==
  /\ board.placements[n].dir # board.placements[m].dir
  /\ Cardinality(Range(board.placements[n].cells)
                   \cap Range(board.placements[m].cells)) = 1
  /\ Range(board.placements[n].cells) \cap Range(board.placements[m].cells)
       \subseteq Range(board.cells)

CraneReturned == dictionary = CraneDictionary /\ pc = "returned"

\* the returned puzzle holds the four words, each readable on the grid and
\* each after the anchor crossing a word placed before it
CraneInterlocked ==
  /\ Len(out.words) = 4
  /\ Range(out.words) = Range(CraneDictionary)
  /\ Len(board.placements) = 4
  /\ \A n \in 1..4 : PlacementReads(board.placements[n])
  /\ \A n \in 2..4 : \E m \in 1..(n - 1) : Crosses(n, m)
  /\ \A n, m \in 1..4 :
       (n # m /\ Range(board.placements[n].cells)
                   \cap Range(board.placements[m].cells) # {}) => Crosses(n, m)

\* the slot assignment gives every letter cell a slot of its own in wave 0
CraneSingleWave ==
  LET byCell == out.slotAssignment.byCell
  IN  /\ DOMAIN byCell = Range(MapKeys(out.letters))
      /\ \A k \in DOMAIN byCell :
           /\ byCell[k].wave = 0
           /\ InOwnLane(k, byCell[k].side, byCell[k].index)
      /\ \A k1, k2 \in DOMAIN byCell : k1 # k2 => byCell[k1].id # byCell[k2].id

\* C11: with the dictionary [CRANE, RAVEN, EAGLE, NURSE], wordCount 4 and
\* lengths 4..5, under any difficulty, generateFeasiblePuzzle returns, and
\* every puzzle it returns holds the four words interlocked at valid
\* crossings with a slot assignment that is a single-wave matching.
C11_CraneTerminatesInterlocked ==
  /\ [](CraneReturned => (CraneInterlocked /\ CraneSingleWave))
  /\ (dictionary = CraneDictionary) ~> (pc = "returned")

\* a returned CRANE puzzle whose last word crosses a word other than the anchor
C11_Witness ==
  /\ CraneReturned
  /\ opts.difficulty = "hard"
  /\ \E m \in 2..3 : Crosses(4, m)
  /\ Cardinality(DOMAIN out.slotAssignment.byCell) >= 16

\* what the claims compare of a board: the live cells with their letters and
\* word sets, and the placement log with each entry's cells by position
BoardView(b) ==
  [cells      |-> {b.heap[id] : id \in Range(b.cells)},
   placements |-> [n \in 1..Len(b.placements) |->
                     [word  |-> b.placements[n].word,
                      dir   |-> b.placements[n].dir,
                      cells |-> [k \in 1..Len(b.placements[n].cells) |->
                                   <<b.heap[b.placements[n].cells[k]].r,
                                     b.heap[b.placements[n].cells[k]].c>>]]]]

\* the step is a solve() returning false to the solve() that called it,
\* which then calls undo
UndoStep == pc = "solving" /\ pc' = "solving" /\ Len(stack') < Len(stack)

\* C22: over a list of distinct words, undo after a failed recursion restores
\* the live cells, their letters and word sets and the placement log to what
\* they were before the tryPlace, and the entry it pops is the placement of
\* the word being undone.
C22_UndoInvertsTryPlace ==
  [][(UndoStep /\ PairwiseDistinct(words)) =>
       /\ BoardView(board') = BoardView(Top.before)
       /\ board.placements[Len(board.placements)].word
            = stack[Len(stack) - 1].remaining[1]
       /\ board.placements[Len(board.placements)]
            = Top.entry.placements[Len(Top.entry.placements)]]_vars

\* the placement the innermost solve() made at the pair before its current
\* one would succeed again on the board as it is
LastPairPlaces ==
  /\ Top.s > 1
  /\ Top.p <= Len(board.placements)
  /\ Top.s - 1 <= Len(SharedAt(Top, Top.p))
  /\ LET placed == board.placements[Top.p]
         pair   == SharedAt(Top, Top.p)[Top.s - 1]
     IN  tryPlace(board, Top.remaining[1], placed, pair.i, pair.j,
                  IF placed.dir = "H" THEN "V" ELSE "H").ok

\* distinct words, and a solve() with a word to come after its own that has
\* placed its word, seen the recursion fail and undone the placement
C22_Witness ==
  /\ pc = "solving"
  /\ PairwiseDistinct(words)
  /\ Len(Top.remaining) >= 2
  /\ LastPairPlaces
  /\ BoardView(board) = BoardView(Top.entry)

\* C23: a tryPlace that returns false leaves the board's cells and placement
\* log unchanged, and when solve returns false they equal their values when
\* that solve call was entered.
C23_FailureChangesNothing ==
  [][/\ (pc = "solving" /\ pc' = "solving" /\ Len(stack') = Len(stack)) =>
          BoardView(board') = BoardView(board)
     /\ (pc = "solving" /\ (UndoStep \/ pc' = "attempt")) =>
          BoardView(board) = BoardView(Top.entry)]_vars

\* the cells the placements of the log list
LoggedCells == UNION {Range(board.placements[n].cells) : n \in 1..Len(board.placements)}

\* C24: in every state of the packer the live cells of the board are exactly
\* the cells of the placements in the log.
C24_LiveCellsAreLoggedCells ==
  pc \in {"solving", "finalized", "returned"} => Range(board.cells) = LoggedCells

\* the log entries whose cell list holds the cell id
PlacementsOn(id) ==
  {n \in 1..Len(board.placements) : id \in Range(board.placements[n].cells)}

\* C25: in every board state of the packer a live cell holds one word, or
\* two words at a crossing of one horizontal and one vertical placement, and
\* two placements of the same direction never share a cell.
C25_OneWordOrCrossing ==
  pc \in {"solving", "finalized", "returned"} =>
    /\ \A id \in Range(board.cells) :
         /\ Cardinality(board.heap[id].words) \in {1, 2}
         /\ Cardinality(PlacementsOn(id)) = Cardinality(board.heap[id].words)
         /\ Cardinality(board.heap[id].words) = 2 =>
              {board.placements[n].dir : n \in PlacementsOn(id)} = {"H", "V"}
    /\ \A n, m \in 1..Len(board.placements) :
         (n # m /\ board.placements[n].dir = board.placements[m].dir) =>
           Range(board.placements[n].cells) \cap Range(board.placements[m].cells) = {}

RECURSIVE CanPlaceAll(_, _)
\* some sequence of accepted placements, taking the words of rest in any
\* order, each across a placement already on the board at a shared letter,
\* places every word of rest on board b
CanPlaceAll(b, rest) ==
  IF Len(rest) = 0 THEN TRUE
  ELSE
    \E w \in 1..Len(rest) :
      \E n \in 1..Len(b.placements) :
        LET shared == OverlapsGet(words, rest[w], b.placements[n].word)
        IN  \E q \in 1..Len(shared) :
              LET res == tryPlace(b, rest[w], b.placements[n], shared[q].i, shared[q].j,
                                  IF b.placements[n].dir = "H" THEN "V" ELSE "H")
              IN  res.ok /\ CanPlaceAll(res.board, Splice(rest, w))

\* the innermost solve() has run out of pairs and is about to return false
SolveReturnsFalse ==
  pc = "solving" /\ Len(Top.remaining) > 0 /\ ~HasCandidate(Top)

\* C26: whenever solve returns false, no sequence of valid placements, in
\* any order of the remaining words, places every remaining word.
C26_FailureMeansNoPacking ==
  SolveReturnsFalse => ~CanPlaceAll(board, Top.remaining)

\* two positions <<r, c>> are orthogonal neighbours
Beside(a, b) ==
  \/ a[1] = b[1] /\ (a[2] - b[2] = 1 \/ b[2] - a[2] = 1)
  \/ a[2] = b[2] /\ (a[1] - b[1] = 1 \/ b[1] - a[1] = 1)

RECURSIVE Region(_, _)
\* the positions of S reachable from the set seen by steps to a neighbour
Region(S, seen) ==
  LET more == {a \in S \ seen : \E b \in seen : Beside(a, b)}
  IN  IF more = {} THEN seen ELSE Region(S, seen \cup more)

\* S is one 4-connected region (or empty)
FourConnected(S) == S = {} \/ Region(S, {CHOOSE a \in S : TRUE}) = S

LivePositions == {<<board.heap[id].r, board.heap[id].c>> : id \in Range(board.cells)}

C28_SelectionConnectedInOrder ==
  \A n \in 2..Len(words) :
    \E m \in 1..(n - 1) : Range(words[n]) \cap Range(words[m]) # {}

\* a selection of three words or more whose third word has no letter of the
\* first and whose second has no letter at the position it has in the first
C28_Witness ==
  /\ pc = "solving"
  /\ Len(words) >= 3
  /\ Range(words[3]) \cap Range(words[1]) = {}
  /\ \A i \in 1..Min2(Len(words[1]), Len(words[2])) : words[1][i] # words[2][i]

\* the length-filtered pool of a shuffled dictionary under the options
PoolOf(shuffled) ==
  SelectSeq(shuffled, LAMBDA w : Len(w) >= opts.minWordLen /\ Len(w) <= opts.maxWordLen)

RECURSIVE ComponentOf(_, _)
\* the pool entries joined to the entries seen by chains of shared letters
ComponentOf(pool, seen) ==
  LET more == {k \in (1..Len(pool)) \ seen :
                 \E n \in seen : Range(pool[k]) \cap Range(pool[n]) # {}}
  IN  IF more = {} THEN seen ELSE ComponentOf(pool, seen \cup more)

\* the seed is pool.pop(): the last pool entry
SeedComponent(pool) == ComponentOf(pool, {Len(pool)})

PickOf(shuffled) ==
  pickConnectedWords(shuffled, opts.minWordLen, opts.maxWordLen, adaptiveWordCount)

\* C29: on a non-empty pool pickConnectedWords throws 'Insufficient overlap'
\* exactly when the letter-sharing component of the seed holds fewer than
\* wordCount pool entries, and returns a list otherwise; two shuffles with
\* the same seed fail together or not at all.
C29_FailsIffSeedComponentSmall ==
  pc = "attempt" =>
    /\ \A shuffled \in Shuffles(dictionary) :
         Len(PoolOf(shuffled)) > 0 =>
           /\ (PickOf(shuffled) = THROW_INSUFFICIENT)
                <=> (Cardinality(SeedComponent(PoolOf(shuffled))) < adaptiveWordCount)
           /\ PickOf(shuffled) # THROW_INSUFFICIENT => PickOf(shuffled).kind = "words"
    /\ \A s1, s2 \in Shuffles(dictionary) :
         (/\ Len(PoolOf(s1)) > 0
          /\ PoolOf(s1)[Len(PoolOf(s1))] = PoolOf(s2)[Len(PoolOf(s2))]) =>
           ((PickOf(s1) = THROW_INSUFFICIENT) <=> (PickOf(s2) = THROW_INSUFFICIENT))

\* the selection failed on a seed with a small component although another
\* seed of the same dictionary, of three words or more, has a component
\* large enough
C29_Witness ==
  /\ pc = "threw"
  /\ out = THROW_INSUFFICIENT
  /\ adaptiveWordCount >= 2
  /\ Len(dictionary) >= 3
  /\ \E shuffled \in Shuffles(dictionary) : PickOf(shuffled).kind = "words"

\* C30: across the attempts of one call the word count never decreases, is
\* raised by exactly one and only after an attempt whose finalized letter
\* count is below min(minLetters, 16 N) with minLetters > 0, is never raised
\* above maxWordCountCap, and with minLetters = 0 stays at max(1, wordCount).
C30_WordCountRaisedOnlyByDensity ==
  [][/\ adaptiveWordCount' >= adaptiveWordCount
     /\ adaptiveWordCount' # adaptiveWordCount =>
          /\ adaptiveWordCount' = adaptiveWordCount + 1
          /\ adaptiveWordCount' <= opts.maxWordCountCap
          /\ pc = "finalized" /\ pc' = "attempt"
          /\ opts.minLetters > 0
          /\ Len(out.letters) < Min2(opts.minLetters, 16 * GridN(out.grid))
     /\ opts.minLetters = 0 =>
          /\ adaptiveWordCount = Max2(1, opts.wordCount)
          /\ adaptiveWordCount' = Max2(1, opts.wordCount)]_vars

\* the word count has been raised to the cap and the attempt made with it
\* has again finalized too few letters
C30_Witness ==
  /\ pc = "finalized"
  /\ TooFewLetters
  /\ adaptiveWordCount = opts.maxWordCountCap
  /\ adaptiveWordCount = Max2(1, opts.wordCount) + 1

\* the words of the placement log, oldest first
AcceptedWords == [n \in 1..Len(board.placements) |-> board.placements[n].word]

\* C31: the words list of every returned puzzle is the de-duplicated list of
\* accepted words in placement order: it starts with the anchor word,
\* contains every word the selector chose for the attempt exactly once and
\* contains nothing else.
C31_WordsAreSelectionInPlacementOrder ==
  pc = "returned" =>
    /\ Len(out.words) >= 1
    /\ out.words[1] = words[1]
    /\ out.words[1] = board.placements[1].word
    /\ PairwiseDistinct(out.words)
    /\ Range(out.words) = Range(words)
    /\ \A i, j \in 1..Len(out.words) :
         i < j => \E n \in 1..Len(AcceptedWords) :
                    /\ AcceptedWords[n] = out.words[i]
                    /\ \A m \in 1..Len(AcceptedWords) :
                         AcceptedWords[m] = out.words[j] => n < m

\* a returned puzzle whose placement log names a word twice, placed in an
\* order that is not the selector's
C31_Witness ==
  /\ pc = "returned"
  /\ Len(board.placements) > Len(out.words)
  /\ Len(out.words) >= 2
  /\ out.words # SubSeq(words, 1, Len(out.words))

\* the rows and the columns of the live cells, and the corners of their
\* bounding box
LiveRows == {LiveCells[n].r : n \in 1..Len(LiveCells)}
LiveCols == {LiveCells[n].c : n \in 1..Len(LiveCells)}
BoxTop    == CHOOSE x \in LiveRows : \A y \in LiveRows : x <= y
BoxBottom == CHOOSE x \in LiveRows : \A y \in LiveRows : x >= y
BoxLeft   == CHOOSE x \in LiveCols : \A y \in LiveCols : x <= y
BoxRight  == CHOOSE x \in LiveCols : \A y \in LiveCols : x >= y

\* C32: finalize produces a tight, origin-shifted grid: N is the larger of
\* the height and the width of the bounding box of the live cells, every
\* cell is shifted by (-minR, -minC), so row 0 has a fillable cell, column 0
\* has a fillable cell, and the last row or the last column has one.
C32_GridTightAndShifted ==
  (Finalized /\ Len(board.cells) > 0) =>
    LET N      == GridN(out.grid)
        height == BoxBottom - BoxTop + 1
        width  == BoxRight - BoxLeft + 1
    IN  /\ N = (IF height >= width THEN height ELSE width)
        /\ Range(MapKeys(out.letters)) =
             {<<LiveCells[n].r - BoxTop, LiveCells[n].c - BoxLeft>> :
                n \in 1..Len(LiveCells)}
        /\ \A n \in 1..Len(LiveCells) :
             out.grid[LiveCells[n].r - BoxTop][LiveCells[n].c - BoxLeft] = 1
        /\ \E c \in 0..(N - 1) : out.grid[0][c] = 1
        /\ \E r \in 0..(N - 1) : out.grid[r][0] = 1
        /\ \E x \in 0..(N - 1) : out.grid[N - 1][x] = 1 \/ out.grid[x][N - 1] = 1

\* a finalized board that reached above row 0 and is wider than high, so
\* that the last row of the square grid is empty
C32_Witness ==
  /\ Finalized
  /\ Len(board.cells) > 0
  /\ BoxTop < 0
  /\ BoxRight - BoxLeft > BoxBottom - BoxTop
  /\ \A c \in 0..(GridN(out.grid) - 1) : out.grid[GridN(out.grid) - 1][c] = 0

\* C33: for every grid with N >= 1 and letters whose keys are all in range,
\* every wave matches at least one remaining cell: the zero-match break is
\* never taken, and the loop ends with the working set empty after at most
\* |letters| waves and at least ceil(|letters| / 4N) waves.
C33_WavesProgressAndTerminate ==
  (WavesCalled /\ GridN(aGrid) >= 1 /\ LettersInRange) =>
    /\ aWaves.result.kind = "assignment"
    /\ ~aWaves.zeroBreak
    /\ Len(aWaves.sizes) = aWaves.waves
    /\ \A k \in 1..Len(aWaves.sizes) : aWaves.sizes[k] >= 1
    /\ DOMAIN aWaves.result.byCell = LetterKeys
    /\ aWaves.waves <= Len(aLetters)
    /\ aWaves.waves * 4 * GridN(aGrid) >= Len(aLetters)

\* a call on more cells than two perimeters have slots: three waves, each
\* matching at least one cell, none empty
C33_Witness ==
  /\ WavesReturned
  /\ LettersInRange
  /\ aWaves.waves = 3
  /\ ~aWaves.zeroBreak
  /\ Len(aLetters) > 2 * 4 * GridN(aGrid)
  /\ Len(aLetters) <= 3 * 4 * GridN(aGrid)

\* C34: whenever assignOutsideSlots returns an assignment for a grid,
\* letters and difficulty, assignOutsideSlotsInWaves on the same input ends
\* after its first wave (after none when there is no letter), gives every
\* cell wave 0 and the slot (side, index, id) assignOutsideSlots gives it,
\* and returns the same bySlot.
C34_SingleWaveAgreesWithWaves ==
  (SingleReturned /\ WavesCalled) =>
    /\ WavesReturned
    /\ ~aWaves.zeroBreak
    /\ aWaves.waves = (IF Len(aLetters) = 0 THEN 0 ELSE 1)
    /\ DOMAIN aWaves.result.byCell = DOMAIN aSingle.result.byCell
    /\ \A key \in DOMAIN aSingle.result.byCell :
         aWaves.result.byCell[key] =
           [side  |-> aSingle.result.byCell[key].side,
            index |-> aSingle.result.byCell[key].index,
            id    |-> aSingle.result.byCell[key].id,
            wave  |-> 0]
    /\ DOMAIN aWaves.result.bySlot = DOMAIN aSingle.result.bySlot
    /\ \A id \in DOMAIN aSingle.result.bySlot :
         aWaves.result.bySlot[id] = aSingle.result.bySlot[id]
    /\ aWaves.result.slots = aSingle.result.slots

\* both assigners returned on a full perimeter load under the hard ordering:
\* every slot is used, some cell by a slot of its column
C34_Witness ==
  /\ SingleReturned
  /\ WavesReturned
  /\ aDifficulty = "hard"
  /\ GridN(aGrid) >= 3
  /\ Len(aLetters) = 4 * GridN(aGrid)
  /\ \E key \in DOMAIN aWaves.result.byCell :
       aWaves.result.byCell[key].side \in {"T", "B"}

\* the candidate slot ids of the u-th letter key (u from 1) under difficulty
\* d, in the order the adjacency lists them
CandidateIds(u, d) ==
  LET slots == Slots(GridN(aGrid))
      adj   == AdjOf(aGrid, d, slots, MapKeys(aLetters)[u], u - 1)
  IN  [k \in 1..Len(adj) |-> slots[adj[k]].id]

\* the row pair comes first for the u-th key under difficulty d
RowPairFirst(u, d) ==
  LET key == MapKeys(aLetters)[u]
      rl  == Cardinality({c \in 0..(GridN(aGrid) - 1) : aGrid[key[1]][c] = 1})
      cl  == Cardinality({r \in 0..(GridN(aGrid) - 1) : aGrid[r][key[2]] = 1})
  IN  \/ d = "hard" /\ rl >= cl
      \/ d = "easy" /\ rl <= cl
      \/ d \notin {"hard", "easy"} /\ (u - 1) % 2 = 0

\* C35: the difficulty bias only reorders a cell's candidates: for every cell
\* (r,c) the candidate list is a permutation of exactly the four slots L:r,
\* R:r, T:c, B:c, with the row pair [L:r, R:r] first when difficulty is
\* 'hard' and rowLen[r] >= colLen[c], when it is 'easy' and rowLen[r] <=
\* colLen[c], or when it is anything else and the cell's index is even;
\* otherwise the column pair [T:c, B:c] comes first.
C35_BiasOnlyReordersCandidates ==
  (WavesCalled /\ LettersInRange) =>
    \A u \in 1..Len(aLetters) :
      \A d \in Difficulties \cup {"other"} :
        LET key == MapKeys(aLetters)[u]
            ids == CandidateIds(u, d)
            row == << <<"L", key[1]>>, <<"R", key[1]>> >>
            col == << <<"T", key[2]>>, <<"B", key[2]>> >>
        IN  /\ Len(ids) = 4
            /\ Range(ids) = Range(row) \cup Range(col)
            /\ ids = (IF RowPairFirst(u, d) THEN row \o col ELSE col \o row)

\* a call under 'hard' in which a cell whose row and column are equally
\* filled lists its row pair first, and a cell of a shorter row lists the
\* column pair first
C35_Witness ==
  /\ WavesReturned
  /\ LettersInRange
  /\ aDifficulty = "hard"
  /\ \E u \in 1..Len(aLetters) :
       /\ RowLen(aGrid, MapKeys(aLetters)[u][1]) = ColLen(aGrid, MapKeys(aLetters)[u][2])
       /\ RowLen(aGrid, MapKeys(aLetters)[u][1]) >= 2
       /\ CandidateIds(u, aDifficulty)[1][1] = "L"
  /\ \E u \in 1..Len(aLetters) : CandidateIds(u, aDifficulty)[1][1] = "T"

\* ========================================================================
\* Properties of the token UI (checked under SpecTokens)
\* ========================================================================
\* C36: in the wave UI no queued token is ever lost: after any sequence of
\* placements and returns, whenever a slot has no active token every cell
\* key in that slot's queue has a placed token.
C36_NoQueuedTokenLost ==
  (puzzle # NoOut /\ WaveMode) =>
    \A s \in DOMAIN slotActive :
      slotActive[s] = NoId =>
        \A n \in 1..Len(getSlotQueue(s)) :
          /\ getSlotQueue(s)[n] \in DOMAIN tokens
          /\ tokens[getSlotQueue(s)[n]].placed

\* C37: validateCompletionSequence is started from onBoardCellClick only in
\* states where every cell of the solution letters map holds a token whose
\* letter equals the solution letter of that cell.
C37_ValidationOnlyWhenSolved ==
  validationStarted =>
    \A n \in 1..Len(puzzle.letters) :
      LET key == puzzle.letters[n][1]
      IN  /\ cellTokenId[key] # NoId
          /\ cellTokenId[key] \in DOMAIN tokens
          /\ tokens[cellTokenId[key]].letter = puzzle.letters[n][2]

\* ========================================================================
\* Properties of the pool script (checked under SpecPool)
\* ========================================================================
PoolPushed == poolPuzzle # NoOut

\* C38: in every entry the pool script pushes, bySlot is the inverse of
\* byCell (bySlot[byCell[k].id] = k for every key k of byCell) and the slot
\* index of every cell is its row (L, R) or its column (T, B)
C38_ShiftedBySlotInvertsByCell ==
  PoolPushed =>
    \A m \in 1..Len(poolPuzzle.slotAssignment.byCell) :
      LET k    == poolPuzzle.slotAssignment.byCell[m][1]
          info == poolPuzzle.slotAssignment.byCell[m][2]
      IN  /\ EntriesGet(poolPuzzle.slotAssignment.bySlot, info.id) = k
          /\ info.index = (IF info.side \in {"L", "R"} THEN k[1] ELSE k[2])

====
